---------------------------- MODULE Spec2Model ----------------------------
(***************************************************************************)
(* Account consolidator: the consolidation/allocation engine.              *)
(*                                                                         *)
(* The repository holds several generations of the same consolidation:     *)
(*   v1/db_operations.py  consolidate_data      SQL, hours-weighted        *)
(*   v3/gpt.py            allocate_salary/consolidate   row loop, 3 modes  *)
(*   v3/clone.py          run_consolidation     SQL, plain LEFT JOINs      *)
(*   v4/main.py           main                  pandas, plain left merges  *)
(*                                                                         *)
(* Money is counted in cents.  A nullable amount is <<>> (SQL NULL /       *)
(* Python None) or a rational <<num, den>>; DECIMAL(_,2) columns hold      *)
(* <<cents, 1>>, DOUBLE columns hold the exact quotient (the float error   *)
(* of sal * (h / total) is of the order 1e-13 and is not modelled).        *)
(* Nullable hours are <<>> or <<h>>.  A NULL project id is NULLID.         *)
(* Dates are <<year, month, day>>.                                         *)
(* The surrogate AUTO_INCREMENT id columns are not part of the records.    *)
(* Text the code inspects character by character (project ids as typed,    *)
(* manager names and emails) is a sequence of one-character strings; an    *)
(* empty spreadsheet cell is NaN and a NULL text column is NULLTEXT.       *)
(***************************************************************************)
EXTENDS Integers, Sequences, FiniteSets, TLC

VARIABLES
    regional,       \* assignment source rows (uk.regional / the Regional.xlsx month sheets)
    salary,         \* payroll source rows (uk.salary / Salary.xlsx)
    abd,            \* profile rows of the MM_YYYY tables of global_abd_data_new
    consolidation,  \* v1: <account>.consolidation
    consolidated,   \* v3/v4: uk.consolidated (no rows while the table does not exist)
    hasPk,          \* uk.consolidated carries PRIMARY KEY (EMPLID, Month, PROJECT_ID)
    producer,       \* [prog, arg]: the run that last wrote uk.consolidated
    ranFy,          \* fiscal years consolidate_data has been run for
    lastRun,        \* [prog, arg]: the last consolidation run of any program
    prevRun,        \* [prog, arg]: the run before the last one
    runs,           \* number of runs made so far (bounded)
    pc,             \* position of the step-wise run (transaction model)
    txn,            \* rows written by the open transaction, not yet committed
    before,         \* committed consolidated rows when the step-wise run started
    outcome,        \* how the step-wise run ended, as its caller sees it
    pmr,            \* the directory: global_pmr_data.pmr_project_managers, in insertion order
    imported,       \* every PMR sheet row handed to import_pmr_data so far, in order
    profile,        \* v1: global_associate_base_data.associate_base_data, in id order
    log,            \* v1: the project ids last written to missing_projects.log
    filled,         \* fiscal years fill_missing_emails ran for since their last rebuild
    cells,          \* the 'PROJECT ID' cells of Regional.xlsx as typed, one per row
    regionalIds,    \* v1: employee_regional_details.PROJECT_ID of the rows imported from them
    ukRegionalIds   \* v3: uk.regional.project_id of the rows loaded from them

vars == <<regional, salary, abd, consolidation, consolidated, hasPk, producer,
          ranFy, lastRun, prevRun, runs, pc, txn, before, outcome,
          pmr, imported, profile, log, filled, cells, regionalIds, ukRegionalIds>>

-----------------------------------------------------------------------------
(* Bounds and the universe the inputs are drawn from *)

MaxRows == 4        \* most assignment rows in the regional source
MaxRuns == 2        \* most consolidation runs in one behaviour

NULL == <<>>
NULLID == "<NULL>"
ABSENT == <<0, 0>>     \* a candidate row that is not in the source

FiscalYears == {"2024", "2025"}
DataYear == "2024"

\* Assignment dates are month ends, payroll dates month starts of the same months.
JanEnd == <<2024, 1, 31>>
FebEnd == <<2024, 2, 29>>
JanStart == <<2024, 1, 1>>
FebStart == <<2024, 2, 1>>

Modes == {"split_by_hours", "split_equal", "first_only"}

\* Candidate assignment rows: a group of up to four projects for E1 in January,
\* the first two with positive, zero or missing hours and the others with one
\* hour, and a single-row group for E2 in February.
CandidateHours(k) ==
    IF k <= 2 THEN {NULL, <<0>>, <<1>>, <<2>>} ELSE {<<1>>}

RegionalKeys ==
    << [emplid |-> "E1", dt |-> JanEnd, project_id |-> "P1"],
       [emplid |-> "E1", dt |-> JanEnd, project_id |-> "P2"],
       [emplid |-> "E1", dt |-> JanEnd, project_id |-> "P3"],
       [emplid |-> "E1", dt |-> JanEnd, project_id |-> "P4"],
       [emplid |-> "E2", dt |-> FebEnd, project_id |-> "P1"] >>

\* Candidate payroll rows: one per (employee, month); E1 is paid in February
\* without any February assignment.
SalaryKeys ==
    << [emplid |-> "E1", month |-> JanStart],
       [emplid |-> "E1", month |-> FebStart],
       [emplid |-> "E2", month |-> FebStart] >>

CandidateGross(k) == IF k = 1 THEN {<<100>>, <<102>>} ELSE {<<100>>}

-----------------------------------------------------------------------------
(* Generic helpers *)

RECURSIVE SeqSum(_)
SeqSum(s) == IF s = <<>> THEN 0 ELSE Head(s) + SeqSum(Tail(s))

RECURSIVE FlatMap(_, _)
\* Concatenation of F[x] over the sequence s, in order.
FlatMap(F, s) == IF s = <<>> THEN <<>> ELSE F[Head(s)] \o FlatMap(F, Tail(s))

SelectIdx(s, Test(_)) ==
    \* the indexes of s whose element passes Test, ascending
    LET RECURSIVE Go(_)
        Go(i) == IF i > Len(s) THEN <<>>
                 ELSE IF Test(s[i]) THEN <<i>> \o Go(i + 1) ELSE Go(i + 1)
    IN Go(1)

Count(s, Test(_)) == Cardinality({i \in 1..Len(s) : Test(s[i])})

\* Rationals <<num, den>> with den > 0.
RatEq(a, b) == a[1] * b[2] = b[1] * a[2]
RatAdd(a, b) == <<a[1] * b[2] + b[1] * a[2], a[2] * b[2]>>
RatAbsDiffLeq(a, b, c) ==
    \* |a - b| <= c
    LET n == a[1] * b[2] - b[1] * a[2]
        d == a[2] * b[2]
        absn == IF n < 0 THEN 0 - n ELSE n
    IN absn * c[2] <= c[1] * d

RECURSIVE RatSum(_)
\* Sum of the non-NULL amounts of a sequence (SQL SUM skips NULL).
RatSum(s) == IF s = <<>> THEN <<0, 1>>
             ELSE IF Head(s) = NULL THEN RatSum(Tail(s))
             ELSE RatAdd(Head(s), RatSum(Tail(s)))

-----------------------------------------------------------------------------
(* Text *)

\* the characters in code-point order
Alphabet == <<" ", "0", "1", "2", "3", "4", "J", "K", "P", "a", "j", "k", "n", "p", "x">>
Digits == {"0", "1", "2", "3", "4"}

NaN == <<"<NaN>">>          \* an empty cell as pandas reads it
NULLTEXT == <<"<NULL>">>    \* SQL NULL in a text column

\* Python str(): NaN prints as 'nan'
str(cell) == IF cell = NaN THEN <<"n", "a", "n">> ELSE cell

RECURSIVE lstrip(_, _)
lstrip(s, ch) == IF s # <<>> /\ Head(s) = ch THEN lstrip(Tail(s), ch) ELSE s

RECURSIVE rstrip(_, _)
rstrip(s, ch) ==
    IF s # <<>> /\ s[Len(s)] = ch THEN rstrip(SubSeq(s, 1, Len(s) - 1), ch) ELSE s

\* Python s.strip() and SQL TRIM(s): the blank is the only whitespace of the alphabet
strip(s) == rstrip(lstrip(s, " "), " ")

\* (mutant) every non-empty text counts as a number
isdigit_Any(s) == s # <<>>

\* Python s.isdigit(): non-empty and digits only
isdigit(s) == s # <<>> /\ \A i \in 1..Len(s) : s[i] \in Digits

LowerChar(c) ==
    CASE c = "J" -> "j" [] c = "K" -> "k" [] c = "P" -> "p" [] OTHER -> c

\* SQL LOWER(s)
LOWER(s) == [i \in 1..Len(s) |-> LowerChar(s[i])]

CharRank(c) == CHOOSE i \in 1..Len(Alphabet) : Alphabet[i] = c

RECURSIVE TextLess(_, _)
\* a < b, character by character
TextLess(a, b) ==
    IF b = <<>> THEN FALSE
    ELSE IF a = <<>> THEN TRUE
    ELSE IF Head(a) = Head(b) THEN TextLess(Tail(a), Tail(b))
    ELSE CharRank(Head(a)) < CharRank(Head(b))

\* SQL MAX() over text under the case-insensitive default collation
MaxText(S) == CHOOSE m \in S : \A x \in S : x = m \/ TextLess(LOWER(x), LOWER(m))

\* the text of a project id of the assignment rows
IdChars(p) ==
    CASE p = "P1" -> <<"P", "1">>
      [] p = "P2" -> <<"P", "2">>
      [] p = "P3" -> <<"P", "3">>
      [] p = "P4" -> <<"P", "4">>
      [] OTHER    -> NULLTEXT

-----------------------------------------------------------------------------
(* Period keys *)

IsLeap(y) == (y % 4 = 0 /\ y % 100 # 0) \/ y % 400 = 0

DaysInMonth(y, m) ==
    IF m = 2 THEN (IF IsLeap(y) THEN 29 ELSE 28)
    ELSE IF m \in {4, 6, 9, 11} THEN 30 ELSE 31

\* pivot sheet name "%b-%y" written by preprocess_regional_file: <<month, yy>>
SheetName(dt) == <<dt[2], dt[1] % 100>>

\* import_regional_details: strptime(sheet_name, '%b-%y') then the last day of the month
SheetEndOfMonth(sn) ==
    LET y == IF sn[2] < 69 THEN 2000 + sn[2] ELSE 1900 + sn[2]
    IN <<y, sn[1], DaysInMonth(y, sn[1])>>

\* import_salary_data: month_date + MonthEnd(0)
EndOfMonth(dt) == <<dt[1], dt[2], DaysInMonth(dt[1], dt[2])>>

\* a date stored as text in none of the formats month_key_from_dt tries
BadDate == <<"31.01.2024">>

\* gpt.py month_key_from_dt: None for a missing date and for a text that no
\* format parses, else strftime("%m_%Y")
month_key_from_dt(dt) == IF dt = NULL \/ dt = BadDate THEN NULL ELSE <<dt[2], dt[1]>>

-----------------------------------------------------------------------------
(* v1: the account tables as import_regional_details / import_salary_data fill them *)

HoursOrZero(h) == IF h = NULL THEN 0 ELSE h[1]

SameSheetKey(a, b) ==
    /\ a.emplid = b.emplid
    /\ a.project_id = b.project_id
    /\ SheetName(a.dt) = SheetName(b.dt)

\* One row per (EMPLID, PROJECT ID) of each month sheet, TOTAL HOURS summed
\* (pandas sum skips missing values, so an all-missing group sums to 0).
ImportRegionalDetails(rows, fiscal_year) ==
    LET first == SelectIdx(rows, LAMBDA r : TRUE)
        IsFirst(i) == \A j \in 1..(i - 1) : ~SameSheetKey(rows[j], rows[i])
        Total(i) == SeqSum([j \in 1..Len(rows) |->
                        IF SameSheetKey(rows[j], rows[i])
                        THEN HoursOrZero(rows[j].total_hours) ELSE 0])
        Row(i) == IF IsFirst(i)
                  THEN << [fiscal_year |-> fiscal_year,
                           EMPLID      |-> rows[i].emplid,
                           PROJECT_ID  |-> rows[i].project_id,
                           TOTAL_HOURS |-> Total(i),
                           Month       |-> SheetEndOfMonth(SheetName(rows[i].dt))] >>
                  ELSE <<>>
    IN FlatMap([i \in 1..Len(rows) |-> Row(i)], first)

ImportSalaryData(rows, fiscal_year) ==
    [i \in 1..Len(rows) |->
        [fiscal_year |-> fiscal_year,
         EMPLID      |-> rows[i].emplid,
         MONTH       |-> EndOfMonth(rows[i].month),
         GROSS_PAY   |-> rows[i].gross_pay]]

-----------------------------------------------------------------------------
(* The directory: import_pmr_data and the lookups of consolidate_data *)

\* import_pmr_data: the PROJECT_ID stored for a 'SAP PROJECT ID' cell
final_project_id(cell) ==
    LET stripped_id == strip(str(cell))
    IN IF isdigit(stripped_id) THEN lstrip(stripped_id, "0") ELSE stripped_id

\* file_preprocessor: clean_project_id of a 'PROJECT ID' cell of Regional.xlsx
clean_project_id(pid) ==
    LET stripped_id == strip(str(pid))
    IN IF isdigit(stripped_id) THEN lstrip(stripped_id, "0") ELSE stripped_id

\* the values import_pmr_data binds for one sheet row
PmrEntryOf(row) ==
    [project_id        |-> final_project_id(row.project_id),
     pgm_manager_name  |-> strip(str(row.manager_name)),
     pgm_manager_email |-> strip(str(row.manager_email))]

\* (mutant) REPLACE INTO: a later row takes the place of the stored entry
InsertIgnore_Replace(table, e) ==
    IF \E i \in 1..Len(table) : table[i].project_id = e.project_id
    THEN [i \in 1..Len(table) |-> IF table[i].project_id = e.project_id THEN e ELSE table[i]]
    ELSE Append(table, e)

\* INSERT IGNORE under PRIMARY KEY (PROJECT_ID)
InsertIgnore(table, e) ==
    IF \E i \in 1..Len(table) : table[i].project_id = e.project_id
    THEN table
    ELSE Append(table, e)

RECURSIVE ImportPmrRows(_, _)
\* the row loop: rows with an empty id are skipped
ImportPmrRows(table, rows) ==
    IF rows = <<>> THEN table
    ELSE LET e == PmrEntryOf(Head(rows))
         IN ImportPmrRows(IF e.project_id # <<>> THEN InsertIgnore(table, e) ELSE table,
                          Tail(rows))

\* the directory rows a PROJECT_ID text joins ON x.PROJECT_ID = pmr.PROJECT_ID
\* (at most one)
PmrOfText(text) ==
    SelectIdx(pmr, LAMBDA e : text # NULLTEXT /\ e.project_id = text)

\* the same join for a project id of the assignment rows
PmrOf(project_id) == PmrOfText(IdChars(project_id))

\* the directory holds an entry for the project id
DirectoryHasId(project_id) ==
    \E i \in 1..Len(pmr) : pmr[i].project_id = IdChars(project_id)

\* (mutant) the row of the lowest id of the EMPLID
LatestAbd_First(emplid) ==
    LET ms == SelectIdx(profile, LAMBDA a : a.emplid = emplid)
    IN IF ms = <<>> THEN <<>> ELSE <<ms[1]>>

\* the abd subquery: the row with MAX(id) of the EMPLID, if any
LatestAbd(emplid) ==
    LET ms == SelectIdx(profile, LAMBDA a : a.emplid = emplid)
    IN IF ms = <<>> THEN <<>> ELSE <<ms[Len(ms)]>>

\* abd.Designation, abd.BAND, abd.Function of the LEFT JOIN
AbdDesignation(emplid) ==
    IF LatestAbd(emplid) = <<>> THEN NULLTEXT ELSE profile[LatestAbd(emplid)[1]].designation
AbdBand(emplid) ==
    IF LatestAbd(emplid) = <<>> THEN NULLTEXT ELSE profile[LatestAbd(emplid)[1]].band
AbdFunction(emplid) ==
    IF LatestAbd(emplid) = <<>> THEN NULLTEXT ELSE profile[LatestAbd(emplid)[1]].function

\* the profile row of the highest id of an EMPLID gives abd.PROGRAM_MANAGER_NAME
ProfileManagerName(emplid) ==
    LET ms == SelectIdx(profile, LAMBDA a : a.emplid = emplid)
    IN IF ms = <<>> THEN NULLTEXT ELSE profile[ms[Len(ms)]].program_manager_name

\* COALESCE(pmr.PGM_MANAGER_NAME, abd.PROGRAM_MANAGER_NAME)
PgmManagerName(emplid, project_id) ==
    LET e == PmrOf(project_id)
    IN IF e # <<>> /\ pmr[e[1]].pgm_manager_name # NULLTEXT
       THEN pmr[e[1]].pgm_manager_name
       ELSE ProfileManagerName(emplid)

\* pmr.PGM_MANAGER_EMAIL
PgmManagerEmail(project_id) ==
    LET e == PmrOf(project_id)
    IN IF e = <<>> THEN NULLTEXT ELSE pmr[e[1]].pgm_manager_email

-----------------------------------------------------------------------------
(* v1/db_operations.py: consolidate_data and fill_missing_emails *)

\* Storing an exact value n/d (d > 0) in a DECIMAL(_,2) column counted in cents:
\* MySQL rounds half away from zero.
RoundHalfAway(n, d) ==
    IF n >= 0 THEN (2 * n + d) \div (2 * d)
    ELSE 0 - ((2 * (0 - n) + d) \div (2 * d))

SameGroup(s, r) ==
    \* s.EMPLID = r.EMPLID AND s.Month = r.Month AND s.fiscal_year = r.fiscal_year
    /\ s.EMPLID = r.EMPLID
    /\ s.MONTH = r.Month
    /\ s.fiscal_year = r.fiscal_year

\* (mutant) the total taken over every row of the fiscal year, not over the group
EmhTotal_AllGroups(R, s, fy) ==
    SeqSum([j \in 1..Len(R) |->
        IF R[j].fiscal_year = fy /\ R[j].TOTAL_HOURS > 0
        THEN R[j].TOTAL_HOURS ELSE 0])

\* emh: SUM(TOTAL_HOURS) over the rows of the group with TOTAL_HOURS > 0
EmhTotal(R, s, fy) ==
    SeqSum([j \in 1..Len(R) |->
        IF SameGroup(s, R[j]) /\ R[j].fiscal_year = fy /\ R[j].TOTAL_HOURS > 0
        THEN R[j].TOTAL_HOURS ELSE 0])

HasEmh(R, s, fy) ==
    \E j \in 1..Len(R) :
        SameGroup(s, R[j]) /\ R[j].fiscal_year = fy /\ R[j].TOTAL_HOURS > 0

\* (mutant) every row of the group is given the whole amount
AllocatedShare_Full(gross_pay, hours, total) ==
    IF gross_pay = NULL THEN NULL ELSE <<RoundHalfAway(gross_pay[1], 1), 1>>

AllocatedShare(gross_pay, hours, total) ==
    \* s.GROSS_PAY * (r.TOTAL_HOURS / emh.total_hours) stored as DECIMAL(20, 2)
    IF gross_pay = NULL THEN NULL
    ELSE <<RoundHalfAway(gross_pay[1] * hours, total), 1>>

\* Step 2: one temp row per salary row and regional row of a group with hours
QueryAllocated(R, S, fy) ==
    LET PerSalary(i) ==
            IF S[i].fiscal_year = fy /\ HasEmh(R, S[i], fy)
            THEN LET rs == SelectIdx(R, LAMBDA r : SameGroup(S[i], r))
                 IN [k \in 1..Len(rs) |->
                        [fiscal_year |-> S[i].fiscal_year,
                         EMPLID      |-> S[i].EMPLID,
                         Month       |-> S[i].MONTH,
                         GROSS_PAY   |-> AllocatedShare(S[i].GROSS_PAY,
                                            R[rs[k]].TOTAL_HOURS, EmhTotal(R, S[i], fy)),
                         PROJECT_ID  |-> R[rs[k]].PROJECT_ID]]
            ELSE <<>>
    IN FlatMap([i \in 1..Len(S) |-> PerSalary(i)], [i \in 1..Len(S) |-> i])

\* Step 3: salary rows with no regional row with hours > 0 keep the full amount, project NULL
QueryUnallocated(R, S, fy) ==
    LET PerSalary(i) ==
            IF S[i].fiscal_year = fy /\ ~HasEmh(R, S[i], fy)
            THEN << [fiscal_year |-> S[i].fiscal_year,
                     EMPLID      |-> S[i].EMPLID,
                     Month       |-> S[i].MONTH,
                     GROSS_PAY   |-> S[i].GROSS_PAY,
                     PROJECT_ID  |-> NULLID] >>
            ELSE <<>>
    IN FlatMap([i \in 1..Len(S) |-> PerSalary(i)], [i \in 1..Len(S) |-> i])

\* Step 4: temp LEFT JOIN regional ON (EMPLID, Month, fiscal_year, PROJECT_ID);
\* a NULL PROJECT_ID matches nothing, and the row keeps r.PROJECT_ID = NULL.
\* The profile join takes one row per EMPLID (MAX(id)) and the directory is keyed
\* by PROJECT_ID, so neither join changes the number of rows or the amounts.
FinalInsertRows(R, temp) ==
    LET PerTemp(i) ==
            LET t == temp[i]
                ms == SelectIdx(R, LAMBDA r :
                        /\ t.EMPLID = r.EMPLID /\ t.Month = r.Month
                        /\ t.fiscal_year = r.fiscal_year
                        /\ t.PROJECT_ID # NULLID /\ t.PROJECT_ID = r.PROJECT_ID)
                Out(project_id) ==
                    [fiscal_year |-> t.fiscal_year, emplid |-> t.EMPLID,
                     month |-> t.Month, gross_pay |-> t.GROSS_PAY,
                     project_id |-> project_id,
                     designation |-> AbdDesignation(t.EMPLID),
                     band |-> AbdBand(t.EMPLID),
                     function |-> AbdFunction(t.EMPLID),
                     pgm_manager_name  |-> PgmManagerName(t.EMPLID, t.PROJECT_ID),
                     pgm_manager_email |-> PgmManagerEmail(t.PROJECT_ID)]
            IN IF ms = <<>>
               THEN << Out(NULLID) >>
               ELSE [k \in 1..Len(ms) |-> Out(R[ms[k]].PROJECT_ID)]
    IN FlatMap([i \in 1..Len(temp) |-> PerTemp(i)], [i \in 1..Len(temp) |-> i])

\* UNIQUE KEY (EMPLID, Month, PROJECT_ID, fiscal_year); NULL project ids never collide
ViolatesUniqueKey(rows) ==
    \E i, j \in 1..Len(rows) :
        /\ i < j
        /\ rows[i].project_id # NULLID
        /\ rows[i].emplid = rows[j].emplid
        /\ rows[i].month = rows[j].month
        /\ rows[i].project_id = rows[j].project_id
        /\ rows[i].fiscal_year = rows[j].fiscal_year

V1Regional == ImportRegionalDetails(regional, DataYear)
V1Salary == ImportSalaryData(salary, DataYear)

\* (mutant) the rows of the year are not deleted before the rebuild
DeleteFiscalYear_Nothing(rows, fy) == rows

\* DELETE ... WHERE fiscal_year = fy
DeleteFiscalYear(rows, fy) ==
    LET keep == SelectIdx(rows, LAMBDA c : c.fiscal_year # fy)
    IN [k \in 1..Len(keep) |-> rows[keep[k]]]

\* What a run of consolidate_data for fy inserts
ConsolidateRows(fy) ==
    FinalInsertRows(V1Regional,
        QueryAllocated(V1Regional, V1Salary, fy) \o QueryUnallocated(V1Regional, V1Salary, fy))

\* the missing-projects query: DISTINCT r.PROJECT_ID of the year's regional rows
\* with no directory row, NULL and '' left out
MissingIds(fy) ==
    {V1Regional[i].PROJECT_ID : i \in
        {j \in 1..Len(V1Regional) :
            /\ V1Regional[j].fiscal_year = fy
            /\ V1Regional[j].PROJECT_ID # NULLID
            /\ IdChars(V1Regional[j].PROJECT_ID) # <<>>
            /\ PmrOf(V1Regional[j].PROJECT_ID) = <<>>}}

RECURSIVE SortedIds(_)
\* Python sorted() of a set of project ids
SortedIds(ids) ==
    IF ids = {} THEN <<>>
    ELSE LET lo == CHOOSE a \in ids :
                        \A b \in ids : a = b \/ TextLess(IdChars(a), IdChars(b))
         IN <<lo>> \o SortedIds(ids \ {lo})

\* (mutant) the list without the directory test
MissingProjects_All(fy) ==
    SortedIds({V1Regional[i].PROJECT_ID : i \in
        {j \in 1..Len(V1Regional) : V1Regional[j].fiscal_year = fy
                                     /\ V1Regional[j].PROJECT_ID # NULLID}})

\* what is written to missing_projects.log
MissingProjects(fy) == SortedIds(MissingIds(fy))

\* consolidate_data, whole: delete the year, rebuild it, commit, then write the
\* missing-projects log.  A unique-key failure raises before the commit and the
\* transaction is rolled back.
ConsolidateData(fy) ==
    /\ runs < MaxRuns
    /\ LET kept == DeleteFiscalYear(consolidation, fy)
           new == kept \o ConsolidateRows(fy)
       IN IF ViolatesUniqueKey(new)
          THEN UNCHANGED <<consolidation, log, filled>>
          ELSE /\ consolidation' = new
               /\ log' = MissingProjects(fy)
               /\ filled' = filled \ {fy}
    /\ ranFy' = ranFy \cup {fy}
    /\ lastRun' = [prog |-> "v1", arg |-> fy]
    /\ prevRun' = lastRun
    /\ runs' = runs + 1
    /\ UNCHANGED <<regional, salary, abd, cells, regionalIds, ukRegionalIds, pmr, imported, profile, consolidated, hasPk,
                   producer, pc, txn, before, outcome>>

\* (mutant) the UPDATE without its PGM_MANAGER_EMAIL IS NULL test
NeedsEmail_Any(c, fy) == c.fiscal_year = fy

\* WHERE c.PGM_MANAGER_EMAIL IS NULL AND c.fiscal_year = fy
NeedsEmail(c, fy) == c.pgm_manager_email = NULLTEXT /\ c.fiscal_year = fy

\* pmr_unique: the directory rows with a name and an email, grouped by name (the
\* default collation compares names without case); the group's MAX(email)
PmrUniqueEmails(name) ==
    {pmr[i].pgm_manager_email : i \in
        {j \in 1..Len(pmr) :
            /\ pmr[j].pgm_manager_email # NULLTEXT
            /\ pmr[j].pgm_manager_name # NULLTEXT
            /\ LOWER(strip(pmr[j].pgm_manager_name)) = LOWER(strip(name))}}

\* the UPDATE ... JOIN pmr_unique ON LOWER(TRIM(name)) = LOWER(TRIM(name)) of one row
FillEmail(c, fy) ==
    IF /\ NeedsEmail(c, fy)
       /\ c.pgm_manager_name # NULLTEXT
       /\ PmrUniqueEmails(c.pgm_manager_name) # {}
    THEN [c EXCEPT !.pgm_manager_email = MaxText(PmrUniqueEmails(c.pgm_manager_name))]
    ELSE c

FillRows(rows, fy) == [k \in 1..Len(rows) |-> FillEmail(rows[k], fy)]

\* fill_missing_emails, whole
FillMissingEmails(fy) ==
    /\ consolidation' = FillRows(consolidation, fy)
    /\ filled' = filled \cup {fy}
    /\ UNCHANGED <<regional, salary, abd, cells, regionalIds, ukRegionalIds, pmr, imported, profile, consolidated, hasPk,
                   producer, ranFy, lastRun, prevRun, runs, pc, txn, before, outcome, log>>

MaxImported == 2    \* most PMR sheet rows imported in one behaviour

\* import_pmr_data, whole, on the concatenated rows of the PMR files
ImportPmrData(rows) ==
    /\ Len(imported) + Len(rows) <= MaxImported
    /\ pmr' = ImportPmrRows(pmr, rows)
    /\ imported' = imported \o rows
    /\ UNCHANGED <<regional, salary, abd, cells, regionalIds, ukRegionalIds, profile, consolidation, consolidated, hasPk,
                   producer, ranFy, lastRun, prevRun, runs, pc, txn, before, outcome,
                   log, filled>>

\* the ABD files of the folder in the order of sorted(abd_files)
AbdFileNames == <<"ABD_Apr-24.xlsx", "ABD_Mar-24.xlsx">>

\* the row import_abd_data inserts for a sheet row: the columns of
\* config.ABD_COLUMN_MAP, a missing cell as NULL; PROGRAM_MANAGER_NAME is not bound
AbdRecord(row) ==
    [emplid |-> row.emplid, function |-> row.function,
     designation |-> row.designation, band |-> row.band,
     program_manager_name |-> NULLTEXT]

\* the rows one file adds: none when its header has no EMPLID column
AbdFileRows(file) ==
    IF file.present /\ file.has_emplid
    THEN [k \in 1..Len(file.rows) |-> AbdRecord(file.rows[k])]
    ELSE <<>>

\* import_abd_data, whole: TRUNCATE, then every file in sorted name order,
\* each row getting the next AUTO_INCREMENT id
ImportAbdData(folder) ==
    /\ profile' = FlatMap([n \in 1..Len(AbdFileNames) |-> AbdFileRows(folder[n])],
                          [n \in 1..Len(AbdFileNames) |-> n])
    /\ UNCHANGED <<regional, salary, abd, cells, regionalIds, ukRegionalIds, pmr, imported,
                   consolidation, consolidated, hasPk, producer, ranFy, lastRun, prevRun,
                   runs, pc, txn, before, outcome, log, filled>>

-----------------------------------------------------------------------------
(* Profile tables (global_abd_data_new.`MM_YYYY`) *)

AbdExists(t) == t \in DOMAIN abd /\ abd[t].exists

\* the table exists and a SELECT on it succeeds
AbdReadable(t) == AbdExists(t) /\ abd[t].readable

\* some existing table cannot be read
AnyAbdUnreadable == \E t \in DOMAIN abd : abd[t].exists /\ ~abd[t].readable

\* a NULL band
NULLBAND == "<NULL>"
AnyAbdTable == \E t \in DOMAIN abd : abd[t].exists

\* the profile rows of table t matching (emplid, project_id); none if t is missing
AbdMatches(t, emplid, project_id) ==
    IF ~AbdReadable(t) THEN <<>>
    ELSE LET hits == SelectIdx(abd[t].rows, LAMBDA a :
                        a.emplid = emplid /\ a.project_id = project_id)
         IN [k \in 1..Len(hits) |-> abd[t].rows[hits[k]]]

-----------------------------------------------------------------------------
(* v3/gpt.py *)

\* load_salary: sal_map[(emplid, mkey)], a later row overwriting an earlier one
SalaryMapGet_First(S, emplid, mkey) ==
    LET hits == SelectIdx(S, LAMBDA r :
                    r.emplid = emplid /\ month_key_from_dt(r.month) = mkey)
    IN IF hits = <<>> THEN NULL ELSE S[hits[1]].gross_pay

SalaryMapGet(S, emplid, mkey) ==
    LET hits == SelectIdx(S, LAMBDA r :
                    r.emplid = emplid /\ month_key_from_dt(r.month) = mkey)
    IN IF hits = <<>> THEN NULL ELSE S[hits[Len(hits)]].gross_pay

\* groups[(emplid, mkey)]: the row indexes of the group of row i, in row order
GroupIdxs(rows, i) ==
    SelectIdx(rows, LAMBDA r :
        /\ r.emplid = rows[i].emplid
        /\ month_key_from_dt(r.dt) = month_key_from_dt(rows[i].dt))

\* (mutant) the last row of the group
FirstOf_Last(idxs) == idxs[Len(idxs)]

\* first = idxs[0]
FirstOf(idxs) == idxs[1]

\* allocate_salary: row index -> allocated gross_pay
allocate_salary(rows, S, allocation) ==
    [i \in 1..Len(rows) |->
        LET idxs == GroupIdxs(rows, i)
            n == Len(idxs)
            sal == SalaryMapGet(S, rows[i].emplid, month_key_from_dt(rows[i].dt))
            total == SeqSum([k \in 1..n |-> HoursOrZero(rows[idxs[k]].total_hours)])
            h == HoursOrZero(rows[i].total_hours)
        IN IF sal = NULL THEN NULL
           ELSE IF n = 1 \/ allocation = "first_only"
                THEN (IF i = FirstOf(idxs) THEN sal ELSE <<0, 1>>)
           ELSE IF allocation = "split_equal" THEN <<sal[1], sal[2] * n>>
           ELSE IF allocation = "split_by_hours"
                THEN (IF total > 0 THEN <<sal[1] * h, sal[2] * total>>
                      ELSE <<sal[1], sal[2] * n>>)
           ELSE <<sal[1], sal[2] * n>>]

\* load_abd: abd_map[(emplid, project_id, MM_YYYY)], a later row of the table
\* overwriting an earlier one; abd_rec.get("band") of the entry, None without one
AbdMapBand(emplid, project_id, mkey) ==
    IF mkey = NULL \/ ~AbdReadable(mkey) THEN NULLBAND
    ELSE LET hits == SelectIdx(abd[mkey].rows, LAMBDA a :
                        a.emplid = emplid /\ a.project_id = project_id)
         IN IF hits = <<>> THEN NULLBAND ELSE abd[mkey].rows[hits[Len(hits)]].band

\* the rows consolidate() inserts: one per regional row, in row order
GptRows(rows, S, allocation) ==
    LET alloc == allocate_salary(rows, S, allocation)
    IN [i \in 1..Len(rows) |->
           [emplid     |-> rows[i].emplid,
            month      |-> month_key_from_dt(rows[i].dt),
            gross_pay  |-> alloc[i],
            band       |-> AbdMapBand(rows[i].emplid, rows[i].project_id,
                                      month_key_from_dt(rows[i].dt)),
            project_id |-> rows[i].project_id]]

\* consolidate(), whole: load, drop and recreate uk.consolidated (no key),
\* insert, commit.  A profile table that cannot be read makes load_abd raise
\* before the table is touched; the error is printed and the run ends.
GptConsolidate(allocation) ==
    /\ runs < MaxRuns
    /\ IF AnyAbdUnreadable
       THEN UNCHANGED <<consolidated, hasPk, producer>>
       ELSE /\ consolidated' = GptRows(regional, salary, allocation)
            /\ hasPk' = FALSE
            /\ producer' = [prog |-> "gpt", arg |-> allocation]
    /\ lastRun' = [prog |-> "gpt", arg |-> allocation]
    /\ prevRun' = lastRun
    /\ runs' = runs + 1
    /\ UNCHANGED <<regional, salary, abd, cells, regionalIds, ukRegionalIds, pmr, imported, profile, consolidation, ranFy,
                   pc, txn, before, outcome, log, filled>>

-----------------------------------------------------------------------------
(* v3/clone.py *)

\* The SELECT of build_final_insert_sql: regional LEFT JOIN salary ON (emplid,
\* MM_YYYY) LEFT JOIN abd_combined ON (emplid, project_id, MM_YYYY) LEFT JOIN pmr
\* (keyed by project id: at most one match).  One output row per matching
\* (salary row, profile row) pair, a missing side counting as one NULL row.
CloneSelectRows(R, S) ==
    LET PerRow(i) ==
            LET mkey == month_key_from_dt(R[i].dt)
                sm == SelectIdx(S, LAMBDA x :
                        x.emplid = R[i].emplid /\ mkey # NULL
                        /\ month_key_from_dt(x.month) = mkey)
                pays == IF sm = <<>> THEN <<NULL>> ELSE [k \in 1..Len(sm) |-> S[sm[k]].gross_pay]
                am == IF mkey = NULL THEN <<>> ELSE AbdMatches(mkey, R[i].emplid, R[i].project_id)
                copies == IF am = <<>> THEN 1 ELSE Len(am)
            IN FlatMap([k \in 1..Len(pays) |->
                            [c \in 1..copies |->
                                [emplid     |-> R[i].emplid,
                                 month      |-> mkey,
                                 gross_pay  |-> pays[k],
                                 project_id |-> R[i].project_id]]],
                       [k \in 1..Len(pays) |-> k])
    IN FlatMap([i \in 1..Len(R) |-> PerRow(i)], [i \in 1..Len(R) |-> i])

\* PRIMARY KEY (EMPLID, Month, PROJECT_ID): no NULL key column, no duplicate key
ViolatesPrimaryKey(rows) ==
    \/ \E i \in 1..Len(rows) : rows[i].month = NULL \/ rows[i].project_id = NULLID
    \/ \E i, j \in 1..Len(rows) :
          /\ i < j
          /\ rows[i].emplid = rows[j].emplid
          /\ rows[i].month = rows[j].month
          /\ rows[i].project_id = rows[j].project_id

\* run_consolidation, whole.  build_abd_union_query raises when there is no
\* profile table, before the consolidated table is touched.  With rebuild the
\* table is dropped, recreated and given the primary key; without it the
\* existing table is kept and the INSERT appends.  A key violation fails the
\* INSERT statement as a whole.
RunConsolidation(rebuild) ==
    /\ runs < MaxRuns
    /\ IF ~AnyAbdTable
       THEN UNCHANGED <<consolidated, hasPk, producer>>
       ELSE LET base == IF rebuild THEN <<>> ELSE consolidated
                pk == IF rebuild THEN TRUE ELSE hasPk
                new == base \o CloneSelectRows(regional, salary)
            IN /\ consolidated' = IF pk /\ ViolatesPrimaryKey(new) THEN base ELSE new
               /\ hasPk' = pk
               /\ producer' = [prog |-> "clone", arg |-> IF rebuild THEN "rebuild" ELSE "append"]
    /\ lastRun' = [prog |-> "clone", arg |-> IF rebuild THEN "rebuild" ELSE "append"]
    /\ prevRun' = lastRun
    /\ runs' = runs + 1
    /\ UNCHANGED <<regional, salary, abd, cells, regionalIds, ukRegionalIds, pmr, imported, profile, consolidation, ranFy,
                   pc, txn, before, outcome, log, filled>>

-----------------------------------------------------------------------------
(* v4/main.py *)

\* '%Y-%m' join_period of a date
join_period(dt) == <<dt[1], dt[2]>>

RECURSIVE SortKeys(_)
\* the MM_YYYY table names in the order groupby iterates them (sorted)
SortKeys(ks) ==
    IF ks = {} THEN <<>>
    ELSE LET lo == CHOOSE a \in ks : \A b \in ks :
                        a[1] < b[1] \/ (a[1] = b[1] /\ a[2] <= b[2])
         IN <<lo>> \o SortKeys(ks \ {lo})

\* get_abd_data: per MM_YYYY group, a left merge with the month's profile table
\* on (emplid, project_id); a missing table (ProgrammingError) keeps the group's
\* rows with NULL profile columns; any other error of the read drops the group
get_abd_data(R) ==
    LET names == SortKeys({month_key_from_dt(R[i].dt) : i \in {j \in 1..Len(R) : R[j].dt # NULL}})
        PerRow(t, i) ==
            IF R[i].dt = NULL \/ month_key_from_dt(R[i].dt) # t THEN <<>>
            ELSE IF AbdExists(t) /\ ~AbdReadable(t) THEN <<>>
            ELSE LET am == AbdMatches(t, R[i].emplid, R[i].project_id)
                     copies == IF am = <<>> THEN 1 ELSE Len(am)
                 IN [c \in 1..copies |->
                        [emplid |-> R[i].emplid, dt |-> R[i].dt,
                         project_id |-> R[i].project_id,
                         total_hours |-> R[i].total_hours,
                         band |-> IF am = <<>> THEN NULLBAND ELSE am[c].band]]
        PerTable(t) == FlatMap([i \in 1..Len(R) |-> PerRow(t, i)], [i \in 1..Len(R) |-> i])
    IN FlatMap([k \in 1..Len(names) |-> PerTable(names[k])], [k \in 1..Len(names) |-> k])

\* the left merge with the salary rows that have a gross_pay, on (emplid, join_period),
\* then Month = the first day of the month
V4Rows(R, S) ==
    LET merged == get_abd_data(R)
        PerRow(i) ==
            LET sm == SelectIdx(S, LAMBDA x :
                        /\ x.gross_pay # NULL
                        /\ x.emplid = merged[i].emplid
                        /\ join_period(x.month) = join_period(merged[i].dt))
                pays == IF sm = <<>> THEN <<NULL>> ELSE [k \in 1..Len(sm) |-> S[sm[k]].gross_pay]
            IN [k \in 1..Len(pays) |->
                   [emplid     |-> merged[i].emplid,
                    month      |-> <<merged[i].dt[1], merged[i].dt[2], 1>>,
                    gross_pay  |-> pays[k],
                    band       |-> merged[i].band,
                    project_id |-> merged[i].project_id]]
    IN FlatMap([i \in 1..Len(merged) |-> PerRow(i)], [i \in 1..Len(merged) |-> i])

\* main(), whole: with no row left after get_abd_data the program exits before
\* writing; else to_sql(if_exists='replace') drops, recreates and fills the table.
V4Main ==
    /\ runs < MaxRuns
    /\ IF get_abd_data(regional) = <<>>
       THEN UNCHANGED <<consolidated, hasPk, producer>>
       ELSE /\ consolidated' = V4Rows(regional, salary)
            /\ hasPk' = FALSE
            /\ producer' = [prog |-> "v4", arg |-> "replace"]
    /\ lastRun' = [prog |-> "v4", arg |-> "replace"]
    /\ prevRun' = lastRun
    /\ runs' = runs + 1
    /\ UNCHANGED <<regional, salary, abd, cells, regionalIds, ukRegionalIds, pmr, imported, profile, consolidation, ranFy,
                   pc, txn, before, outcome, log, filled>>

-----------------------------------------------------------------------------
(* Inputs *)

\* the source rows picked by a choice of hours (or ABSENT) per candidate key
RegionalOf(c) ==
    FlatMap([k \in 1..Len(RegionalKeys) |->
                IF c[k] = ABSENT THEN <<>>
                ELSE << [emplid      |-> RegionalKeys[k].emplid,
                         dt          |-> RegionalKeys[k].dt,
                         project_id  |-> RegionalKeys[k].project_id,
                         total_hours |-> c[k]] >>],
            [k \in 1..Len(RegionalKeys) |-> k])

SalaryOf(c) ==
    FlatMap([k \in 1..Len(SalaryKeys) |->
                IF c[k] = ABSENT THEN <<>>
                ELSE << [emplid    |-> SalaryKeys[k].emplid,
                         month     |-> SalaryKeys[k].month,
                         gross_pay |-> <<c[k][1], 1>>] >>],
            [k \in 1..Len(SalaryKeys) |-> k])

RegionalChoices ==
    { c \in [1..Len(RegionalKeys) ->
                {ABSENT} \cup UNION {CandidateHours(k) :
                                        k \in 1..Len(RegionalKeys)}] :
        /\ \A k \in 1..Len(RegionalKeys) :
              c[k] = ABSENT \/ c[k] \in CandidateHours(k)
        /\ Cardinality({k \in 1..Len(RegionalKeys) : c[k] # ABSENT}) <= MaxRows }

SalaryChoices ==
    { c \in [1..Len(SalaryKeys) -> {ABSENT, <<100>>, <<102>>}] :
        \A k \in 1..Len(SalaryKeys) : c[k] = ABSENT \/ c[k] \in CandidateGross(k) }

NoAbd ==
    [t \in {<<1, 2024>>, <<2, 2024>>} |->
        [exists |-> FALSE, readable |-> FALSE, rows |-> <<>>]]

\* a profile table that exists and can be read
AbdTable(rows) == [exists |-> TRUE, readable |-> TRUE, rows |-> rows]

InitStores ==
    /\ consolidation = <<>>
    /\ consolidated = <<>>
    /\ hasPk = FALSE
    /\ producer = [prog |-> "none", arg |-> "none"]
    /\ ranFy = {}
    /\ lastRun = [prog |-> "none", arg |-> "none"]
    /\ prevRun = [prog |-> "none", arg |-> "none"]
    /\ runs = 0
    /\ pc = "idle"
    /\ txn = <<>>
    /\ before = <<>>
    /\ outcome = "none"
    /\ log = <<>>
    /\ filled = {}
    /\ regionalIds = <<>>
    /\ ukRegionalIds = <<>>

\* no directory, no profile rows, no project id cells
NoDirectory ==
    /\ cells = <<>>
    /\ pmr = <<>>
    /\ imported = <<>>
    /\ profile = <<>>

Init ==
    /\ \E c \in RegionalChoices : regional = RegionalOf(c)
    /\ \E c \in SalaryChoices : salary = SalaryOf(c)
    /\ abd = NoAbd
    /\ NoDirectory
    /\ InitStores

Next ==
    \/ \E fy \in FiscalYears : ConsolidateData(fy)
    \/ \E allocation \in Modes : GptConsolidate(allocation)

Spec == Init /\ [][Next]_vars

\* The join-based programs, with profile tables that are missing, empty, hold
\* one profile row or hold two rows for the same (employee, project).
JoinHours == {<<0>>, <<1>>}

JoinRegionalChoices ==
    { c \in RegionalChoices : \A k \in DOMAIN c : c[k] = ABSENT \/ c[k] \in JoinHours }

ProfileRow(band) == [emplid |-> "E1", project_id |-> "P1", band |-> band]

AbdChoices ==
    { NoAbd,
      [NoAbd EXCEPT ![<<1, 2024>>] = AbdTable(<<>>)],
      [NoAbd EXCEPT ![<<1, 2024>>] = AbdTable(<<ProfileRow("B1")>>)],
      [NoAbd EXCEPT ![<<1, 2024>>] = AbdTable(<<ProfileRow("B1"), ProfileRow("B2")>>)] }

InitJoin ==
    /\ \E c \in JoinRegionalChoices : regional = RegionalOf(c)
    /\ \E c \in SalaryChoices : salary = SalaryOf(c)
    /\ abd \in AbdChoices
    /\ NoDirectory
    /\ InitStores

NextJoin ==
    \/ \E fy \in FiscalYears : ConsolidateData(fy)
    \/ \E rebuild \in BOOLEAN : RunConsolidation(rebuild)
    \/ V4Main

SpecJoin == InitJoin /\ [][NextJoin]_vars

-----------------------------------------------------------------------------
(* The data model the claims speak of: (employee, period) groups of the sources *)

\* the period (calendar month) of a source date
PeriodOf(dt) == <<dt[1], dt[2]>>

\* the period a consolidated row carries: v1 stores a DATE, gpt and clone "MM_YYYY"
PeriodOfDate(month) == <<month[1], month[2]>>
PeriodOfKey(month) == <<month[2], month[1]>>

Groups ==
    {<<regional[i].emplid, PeriodOf(regional[i].dt)>> : i \in 1..Len(regional)}
        \cup {<<salary[i].emplid, PeriodOf(salary[i].month)>> : i \in 1..Len(salary)}

\* indexes of the Assignments / PayrollRecords of group g
AssignmentsOf(g) ==
    {i \in 1..Len(regional) : regional[i].emplid = g[1] /\ PeriodOf(regional[i].dt) = g[2]}
PayrollOf(g) ==
    {i \in 1..Len(salary) : salary[i].emplid = g[1] /\ PeriodOf(salary[i].month) = g[2]}

HasPayroll(g) ==
    /\ Cardinality(PayrollOf(g)) = 1
    /\ \A i \in PayrollOf(g) : salary[i].gross_pay # NULL

GrossOf(g) == salary[CHOOSE i \in PayrollOf(g) : TRUE].gross_pay

GroupHours(g) ==
    SeqSum([i \in 1..Len(regional) |->
        IF i \in AssignmentsOf(g) THEN HoursOrZero(regional[i].total_hours) ELSE 0])

AllHoursZero(g) == \A i \in AssignmentsOf(g) : HoursOrZero(regional[i].total_hours) = 0
NoNegativeHours(g) == \A i \in AssignmentsOf(g) : HoursOrZero(regional[i].total_hours) >= 0

\* the ConsolidatedRecords of group g: indexes into the two stores
V1RecordsOf(g) ==
    {k \in 1..Len(consolidation) :
        /\ consolidation[k].emplid = g[1]
        /\ PeriodOfDate(consolidation[k].month) = g[2]}
UkRecordsOf(g) ==
    {k \in 1..Len(consolidated) :
        /\ consolidated[k].emplid = g[1]
        /\ consolidated[k].month # NULL
        /\ PeriodOfKey(consolidated[k].month) = g[2]}

AmountsOf(rows, ks) ==
    LET idx == SelectIdx(rows, LAMBDA r : TRUE)
    IN FlatMap([k \in 1..Len(rows) |-> IF k \in ks THEN <<rows[k].gross_pay>> ELSE <<>>], idx)

\* consolidate_data has produced the data year; gpt's consolidate() produced uk.consolidated
V1Done == DataYear \in ranFy
GptDone == producer.prog = "gpt"

OneCent == <<1, 1>>

-----------------------------------------------------------------------------
(* Claims about the allocation paths (consolidate_data, allocate_salary) *)

\* C1 (as claimed): after consolidation, every group with at least one Assignment
\* and a PayrollRecord has its consolidated amounts summing to the gross amount
\* within 0.01, in consolidate_data and in allocate_salary under every mode.
C1_ConservationPerGroup ==
    \A g \in Groups :
        (AssignmentsOf(g) # {} /\ HasPayroll(g)) =>
            /\ V1Done =>
                 RatAbsDiffLeq(RatSum(AmountsOf(consolidation, V1RecordsOf(g))),
                               GrossOf(g), OneCent)
            /\ GptDone =>
                 RatAbsDiffLeq(RatSum(AmountsOf(consolidated, UkRecordsOf(g))),
                               GrossOf(g), OneCent)

\* C2 (as claimed): after a run of gpt's consolidate() the allocated amounts over
\* all consolidated rows total the gross amounts over all payroll rows read.
C2_WholeRunConservation ==
    GptDone =>
        RatAbsDiffLeq(RatSum([k \in 1..Len(consolidated) |-> consolidated[k].gross_pay]),
                      RatSum([i \in 1..Len(salary) |-> salary[i].gross_pay]),
                      OneCent)

\* C3 (as claimed): a PayrollRecord whose group has no Assignment yields exactly
\* one consolidated row, with a NULL project and the full gross amount.
NullProjectRow(rows, ks, g) ==
    /\ Cardinality(ks) = 1
    /\ \A k \in ks : rows[k].project_id = NULLID
                     /\ rows[k].gross_pay # NULL
                     /\ RatEq(rows[k].gross_pay, GrossOf(g))

C3_NullProjectCase ==
    \A g \in Groups :
        (AssignmentsOf(g) = {} /\ HasPayroll(g)) =>
            /\ V1Done => NullProjectRow(consolidation, V1RecordsOf(g), g)
            /\ GptDone => NullProjectRow(consolidated, UkRecordsOf(g), g)

\* One consolidated row per Assignment of the group, each keeping its project id
\* and receiving Share(i).
RowPerAssignment(rows, ks, g, Share(_)) ==
    /\ Cardinality(ks) = Cardinality(AssignmentsOf(g))
    /\ \A i \in AssignmentsOf(g) :
          \E k \in ks : /\ rows[k].project_id = regional[i].project_id
                        /\ rows[k].gross_pay # NULL
                        /\ RatEq(rows[k].gross_pay, Share(i))

\* C4 (as claimed): a group of n >= 2 Assignments, all with zero or missing hours,
\* and a PayrollRecord yields one row per Assignment, each with gross / n
\* (in allocate_salary: in the modes that split).
C4_EqualSplitFallback ==
    \A g \in Groups :
        LET n == Cardinality(AssignmentsOf(g))
            Share(i) == <<GrossOf(g)[1], GrossOf(g)[2] * n>>
        IN (n >= 2 /\ HasPayroll(g) /\ AllHoursZero(g)) =>
            /\ V1Done => RowPerAssignment(consolidation, V1RecordsOf(g), g, Share)
            /\ (GptDone /\ producer.arg # "first_only") =>
                   RowPerAssignment(consolidated, UkRecordsOf(g), g, Share)

\* C6 (as claimed): a group with exactly one Assignment and a PayrollRecord yields
\* the row of that Assignment, with its project id and the full gross amount,
\* whatever its hours.
C6_SingleAssignment ==
    \A g \in Groups :
        LET Share(i) == GrossOf(g)
        IN (Cardinality(AssignmentsOf(g)) = 1 /\ HasPayroll(g)) =>
            /\ V1Done => RowPerAssignment(consolidation, V1RecordsOf(g), g, Share)
            /\ GptDone => RowPerAssignment(consolidated, UkRecordsOf(g), g, Share)

\* C7 (as claimed): every Assignment whose group has no PayrollRecord still
\* yields a consolidated row carrying its project id, with a NULL amount.
PayrollAbsentRows(rows, ks, g) ==
    \A i \in AssignmentsOf(g) :
        \E k \in ks : rows[k].project_id = regional[i].project_id
                      /\ rows[k].gross_pay = NULL

C7_PayrollAbsent ==
    \A g \in Groups :
        (AssignmentsOf(g) # {} /\ PayrollOf(g) = {}) =>
            /\ V1Done => PayrollAbsentRows(consolidation, V1RecordsOf(g), g)
            /\ GptDone => PayrollAbsentRows(consolidated, UkRecordsOf(g), g)

\* the exact pro-rata share of Assignment i of group g: gross * hours_i / sum(hours)
ProRataShare(g, i) ==
    <<GrossOf(g)[1] * HoursOrZero(regional[i].total_hours), GrossOf(g)[2] * GroupHours(g)>>

\* amount is a whole number of cents and is share rounded half away from zero
IsRoundedToCents(amount, share) ==
    /\ amount[2] = 1
    /\ 2 * share[2] * amount[1] <= 2 * share[1] + share[2]
    /\ 2 * share[1] + share[2] < 2 * share[2] * (amount[1] + 1)

ProRateCase(g) ==
    /\ Cardinality(AssignmentsOf(g)) >= 2
    /\ HasPayroll(g)
    /\ NoNegativeHours(g)
    /\ GroupHours(g) > 0

V1GroupOf(c) == <<c.emplid, PeriodOfDate(c.month)>>
UkGroupOf(c) == <<c.emplid, PeriodOfKey(c.month)>>

\* payroll without any Assignment for the group
PayrollOnly(g) == PayrollOf(g) # {} /\ AssignmentsOf(g) = {}

\* C17 (as claimed): a consolidated row has a NULL project id if and only if its
\* (employee, period) has a PayrollRecord and no Assignment; a group that has
\* Assignments, even with zero hours, never yields a NULL-project row.
C17_NullProjectIff ==
    /\ V1Done =>
          \A k \in 1..Len(consolidation) :
             consolidation[k].project_id = NULLID
                <=> PayrollOnly(V1GroupOf(consolidation[k]))
    /\ GptDone =>
          \A k \in 1..Len(consolidated) :
             consolidated[k].project_id = NULLID
                <=> (consolidated[k].month # NULL /\ PayrollOnly(UkGroupOf(consolidated[k])))

-----------------------------------------------------------------------------
(* Claims about re-running *)

\* a step that repeats the previous run: same program, same argument (the
\* sources never change between runs)
RepeatedRun == runs' = runs + 1 /\ lastRun' = lastRun

C20_RoundingReconciliation ==
    \A g \in Groups :
        (ProRateCase(g) /\ V1Done) =>
            LET ks == V1RecordsOf(g)
            IN /\ \A k \in ks : /\ consolidation[k].gross_pay # NULL
                                /\ consolidation[k].gross_pay[2] = 1
               /\ RatEq(RatSum(AmountsOf(consolidation, ks)), GrossOf(g))
               /\ \E last \in ks :
                     \A k \in ks \ {last} :
                        /\ TextLess(IdChars(consolidation[k].project_id),
                                    IdChars(consolidation[last].project_id))
                        /\ \E i \in AssignmentsOf(g) :
                              /\ regional[i].project_id = consolidation[k].project_id
                              /\ IsRoundedToCents(consolidation[k].gross_pay,
                                                  ProRataShare(g, i))

\* a group that is pro-rated although some of its Assignments have zero or
\* missing hours
PartialHoursCase(g) ==
    /\ ProRateCase(g)
    /\ \E i \in AssignmentsOf(g) : HoursOrZero(regional[i].total_hours) = 0

\* the rows ks hold one record per Assignment of g: 0 for zero or missing
\* hours, else an amount that Fits the pro-rata share; together they make up the
\* gross amount within one cent
PartialHoursRows(rows, ks, g, Fits(_, _)) ==
    /\ Cardinality(ks) = Cardinality(AssignmentsOf(g))
    /\ \A i \in AssignmentsOf(g) :
          \E k \in ks :
             /\ rows[k].project_id = regional[i].project_id
             /\ rows[k].gross_pay # NULL
             /\ IF HoursOrZero(regional[i].total_hours) = 0
                THEN RatEq(rows[k].gross_pay, <<0, 1>>)
                ELSE Fits(rows[k].gross_pay, ProRataShare(g, i))
    /\ RatAbsDiffLeq(RatSum(AmountsOf(rows, ks)), GrossOf(g), OneCent)

FirstOnlyDone == GptDone /\ producer.arg = "first_only"

\* the first Assignment of group g in source row order
FirstAssignment(g) == CHOOSE i \in AssignmentsOf(g) : \A j \in AssignmentsOf(g) : i <= j

\* C28: in first_only mode every group with a PayrollRecord and n >= 1
\* Assignments has the full gross amount on the record of its first Assignment
\* row (in source row order) and exactly 0 on every other, so the group's
\* records total the gross amount; this holds for all groups of the run.
C28_FirstOnlyMode ==
    FirstOnlyDone =>
        /\ Len(consolidated) = Len(regional)
        /\ \A g \in Groups :
              (HasPayroll(g) /\ AssignmentsOf(g) # {}) =>
                 /\ \A i \in AssignmentsOf(g) :
                       /\ consolidated[i].project_id = regional[i].project_id
                       /\ consolidated[i].gross_pay # NULL
                       /\ RatEq(consolidated[i].gross_pay,
                                IF i = FirstAssignment(g) THEN GrossOf(g) ELSE <<0, 1>>)
                 /\ RatEq(RatSum(AmountsOf(consolidated, UkRecordsOf(g))), GrossOf(g))

\* A first_only run over a group of three Assignments with different hours, the
\* first of them without hours, and over a second group, both with a PayrollRecord.
C28_Witness ==
    /\ FirstOnlyDone
    /\ \E g, g2 \in Groups :
          /\ g # g2
          /\ HasPayroll(g) /\ HasPayroll(g2) /\ AssignmentsOf(g2) # {}
          /\ Cardinality(AssignmentsOf(g)) = 3
          /\ HoursOrZero(regional[FirstAssignment(g)].total_hours) = 0
          /\ GroupHours(g) > 0

\* no two rows of the table share (employee, period, project id), NULL project
\* ids included
KeyUnique(rows) ==
    \A i, j \in 1..Len(rows) :
        (/\ i # j
         /\ rows[i].emplid = rows[j].emplid
         /\ rows[i].month = rows[j].month)
        => rows[i].project_id # rows[j].project_id

\* C18 (as claimed): after any consolidation run the consolidated set holds at
\* most one row per (employee, period, project id), at most one NULL-project
\* row per (employee, period) included, whatever the number of matching
\* payroll, profile or directory rows.
C18_KeyUniqueness == KeyUnique(consolidation) /\ KeyUnique(consolidated)

-----------------------------------------------------------------------------
(* The runs step by step: what is committed, and so visible to readers, when.  *)
(* Every connection runs with autocommit off on InnoDB tables: rows written    *)
(* are invisible to readers until commit and are rolled back when the          *)
(* connection closes without one; DROP TABLE / CREATE TABLE commit implicitly. *)

MaxTxnRows == 2     \* most assignment rows in the step-wise model

Ended == {"idle", "done", "failed", "crashed"}
GptSteps == {"gpt_load", "gpt_create", "gpt_insert", "gpt_validate"}
V1Steps == {"v1_delete", "v1_insert", "v1_commit", "v1_report"}
V4Steps == {"v4_drop", "v4_insert", "v4_commit"}

\* the consolidated rows a reader sees in the store the current run writes
Visible == IF lastRun.prog = "v1" THEN consolidation ELSE consolidated

\* the complete set the current run writes when nothing fails
Produced ==
    CASE lastRun.prog = "v1"  -> DeleteFiscalYear(before, lastRun.arg) \o ConsolidateRows(lastRun.arg)
      [] lastRun.prog = "gpt" -> GptRows(regional, salary, lastRun.arg)
      [] lastRun.prog = "v4"  -> V4Rows(regional, salary)
      [] OTHER                -> before

Begin(prog, arg, first) ==
    /\ pc \in Ended
    /\ runs < MaxRuns
    /\ runs' = runs + 1
    /\ prevRun' = lastRun
    /\ lastRun' = [prog |-> prog, arg |-> arg]
    /\ before' = IF prog = "v1" THEN consolidation ELSE consolidated
    /\ txn' = IF prog = "v1" THEN consolidation ELSE <<>>
    /\ outcome' = "running"
    /\ pc' = first
    /\ UNCHANGED <<regional, salary, abd, cells, regionalIds, ukRegionalIds, pmr, imported, profile, consolidation, consolidated,
                   hasPk, producer, ranFy, log, filled>>

Goto(next) ==
    /\ pc' = next
    /\ UNCHANGED <<regional, salary, abd, cells, regionalIds, ukRegionalIds, pmr, imported, profile, ranFy, lastRun, prevRun,
                   runs, before, log, filled>>

\* gpt.py consolidate()
GptBegin(allocation) == Begin("gpt", allocation, "gpt_load")

GptLoad ==
    /\ pc = "gpt_load"
    /\ Goto("gpt_create")
    /\ UNCHANGED <<consolidation, consolidated, hasPk, producer, txn, outcome>>

\* create_consolidated: DROP TABLE IF EXISTS, CREATE TABLE
GptCreate ==
    /\ pc = "gpt_create"
    /\ consolidated' = <<>>
    /\ hasPk' = FALSE
    /\ producer' = lastRun
    /\ Goto("gpt_insert")
    /\ UNCHANGED <<consolidation, txn, outcome>>

\* cur.execute(insert_sql, data) for the next regional row
GptInsert ==
    /\ pc = "gpt_insert"
    /\ Len(txn) < Len(regional)
    /\ txn' = Append(txn, GptRows(regional, salary, lastRun.arg)[Len(txn) + 1])
    /\ Goto("gpt_insert")
    /\ UNCHANGED <<consolidation, consolidated, hasPk, producer, outcome>>

\* conn.commit()
GptCommit ==
    /\ pc = "gpt_insert"
    /\ Len(txn) = Len(regional)
    /\ consolidated' = txn
    /\ txn' = <<>>
    /\ Goto("gpt_validate")
    /\ UNCHANGED <<consolidation, hasPk, producer, outcome>>

\* the DEBUG validation queries, then the normal return
GptValidate ==
    /\ pc = "gpt_validate"
    /\ outcome' = "returned"
    /\ Goto("done")
    /\ UNCHANGED <<consolidation, consolidated, hasPk, producer, txn>>

\* a store operation raises mysql.connector.Error: the except clause prints it,
\* the finally clause closes the connection, consolidate() returns normally
GptFail ==
    /\ pc \in GptSteps
    /\ txn' = <<>>
    /\ outcome' = "returned"
    /\ Goto("failed")
    /\ UNCHANGED <<consolidation, consolidated, hasPk, producer>>

\* v1 main(): consolidate_data then fill_missing_emails
V1Begin(fy) == Begin("v1", fy, "v1_delete")

V1Delete ==
    /\ pc = "v1_delete"
    /\ txn' = DeleteFiscalYear(txn, lastRun.arg)
    /\ Goto("v1_insert")
    /\ UNCHANGED <<consolidation, consolidated, hasPk, producer, outcome>>

\* the temporary table and the final INSERT ... SELECT
V1Insert ==
    /\ pc = "v1_insert"
    /\ ~ViolatesUniqueKey(txn \o ConsolidateRows(lastRun.arg))
    /\ txn' = txn \o ConsolidateRows(lastRun.arg)
    /\ Goto("v1_commit")
    /\ UNCHANGED <<consolidation, consolidated, hasPk, producer, outcome>>

V1Commit ==
    /\ pc = "v1_commit"
    /\ consolidation' = txn
    /\ txn' = <<>>
    /\ pc' = "v1_report"
    /\ ranFy' = ranFy \cup {lastRun.arg}
    /\ filled' = filled \ {lastRun.arg}
    /\ UNCHANGED <<regional, salary, abd, cells, regionalIds, ukRegionalIds, pmr, imported, profile, consolidated, hasPk, producer, lastRun,
                   prevRun, runs, before, outcome, log>>

\* the missing-projects query and log
V1Report ==
    /\ pc = "v1_report"
    /\ log' = MissingProjects(lastRun.arg)
    /\ pc' = "v1_backfill"
    /\ UNCHANGED <<regional, salary, abd, cells, regionalIds, ukRegionalIds, pmr, imported, profile, ranFy, lastRun, prevRun,
                   runs, before, filled, consolidation, consolidated, hasPk, producer,
                   txn, outcome>>

\* fill_missing_emails succeeds: its UPDATE is committed
V1Backfill ==
    /\ pc = "v1_backfill"
    /\ consolidation' = FillRows(consolidation, lastRun.arg)
    /\ filled' = filled \cup {lastRun.arg}
    /\ outcome' = "returned"
    /\ pc' = "done"
    /\ UNCHANGED <<regional, salary, abd, cells, regionalIds, ukRegionalIds, pmr, imported, profile, ranFy, lastRun, prevRun,
                   runs, before, log, consolidated, hasPk, producer, txn>>

\* a store operation of consolidate_data raises: nothing catches it, the
\* exception leaves main() and the open transaction is rolled back
V1Fail ==
    /\ pc \in V1Steps
    /\ txn' = <<>>
    /\ outcome' = "raised"
    /\ Goto("failed")
    /\ UNCHANGED <<consolidation, consolidated, hasPk, producer>>

\* the UPDATE of fill_missing_emails raises: the except clause prints it and
\* the function returns normally
V1BackfillFail ==
    /\ pc = "v1_backfill"
    /\ outcome' = "returned"
    /\ Goto("failed")
    /\ UNCHANGED <<consolidation, consolidated, hasPk, producer, txn>>

\* v4 main(): df_final.to_sql(..., if_exists='replace')
V4Begin ==
    /\ get_abd_data(regional) # <<>>
    /\ Begin("v4", "replace", "v4_drop")

V4Drop ==
    /\ pc = "v4_drop"
    /\ consolidated' = <<>>
    /\ hasPk' = FALSE
    /\ producer' = lastRun
    /\ Goto("v4_insert")
    /\ UNCHANGED <<consolidation, txn, outcome>>

V4Insert ==
    /\ pc = "v4_insert"
    /\ txn' = V4Rows(regional, salary)
    /\ Goto("v4_commit")
    /\ UNCHANGED <<consolidation, consolidated, hasPk, producer, outcome>>

V4Commit ==
    /\ pc = "v4_commit"
    /\ consolidated' = txn
    /\ txn' = <<>>
    /\ outcome' = "returned"
    /\ Goto("done")
    /\ UNCHANGED <<consolidation, hasPk, producer>>

\* to_sql raises: the except clause prints it and calls sys.exit(1)
V4Fail ==
    /\ pc \in V4Steps
    /\ txn' = <<>>
    /\ outcome' = "exit1"
    /\ Goto("failed")
    /\ UNCHANGED <<consolidation, consolidated, hasPk, producer>>

\* the process dies at any point of a run: the connection is lost and the
\* server rolls the open transaction back
Crash ==
    /\ pc \notin Ended
    /\ txn' = <<>>
    /\ outcome' = "crashed"
    /\ Goto("crashed")
    /\ UNCHANGED <<consolidation, consolidated, hasPk, producer>>

TxnRegionalChoices ==
    { c \in JoinRegionalChoices :
        Cardinality({k \in DOMAIN c : c[k] # ABSENT}) <= MaxTxnRows }

InitTxn ==
    /\ \E c \in TxnRegionalChoices : regional = RegionalOf(c)
    /\ \E c \in SalaryChoices : salary = SalaryOf(c)
    /\ abd = NoAbd
    /\ NoDirectory
    /\ InitStores

NextTxn ==
    \/ \E allocation \in Modes : GptBegin(allocation)
    \/ GptLoad \/ GptCreate \/ GptInsert \/ GptCommit \/ GptValidate \/ GptFail
    \/ \E fy \in FiscalYears : V1Begin(fy)
    \/ V1Delete \/ V1Insert \/ V1Commit \/ V1Report \/ V1Backfill
    \/ V1Fail \/ V1BackfillFail
    \/ V4Begin \/ V4Drop \/ V4Insert \/ V4Commit \/ V4Fail
    \/ Crash

SpecTxn == InitTxn /\ [][NextTxn]_vars

\* C9 (as claimed): at every point of a run, and after a crash at any step, the
\* consolidated rows visible to readers are either the complete set from before
\* the run or the complete set the run produces.
C9_AtomicReplace ==
    pc # "idle" => (Visible = before \/ Visible = Produced)

\* C10 (as claimed): when a store operation fails during a run, the consolidated
\* rows are exactly those from before the run and the caller gets an error
\* (an exception or a non-zero exit), not a normal return.
C10_FailurePreservesAndSurfaces ==
    pc = "failed" => (Visible = before /\ outcome \in {"raised", "exit1"})

\* C25 (as claimed): in every run for a period the backfill pass comes after
\* the replacement of the period's rows and the discrepancy list is written
\* only once the backfill pass of that run has completed.
C25_PipelineOrder ==
    [][/\ V1Backfill => (lastRun.arg \in ranFy /\ lastRun.arg \notin filled)
       /\ V1Report => lastRun.arg \in filled]_vars

\* the period of a consolidated row, whichever program wrote it (a DATE or an
\* "MM_YYYY" key)
RowPeriod(c) == IF Len(c.month) = 3 THEN PeriodOfDate(c.month) ELSE PeriodOfKey(c.month)

SameAmount(a, b) == IF a = NULL \/ b = NULL THEN a = b ELSE RatEq(a, b)

\* the same ConsolidatedRecord: employee, project, period and amount
SameRecord(a, b) ==
    /\ a.emplid = b.emplid
    /\ a.project_id = b.project_id
    /\ RowPeriod(a) = RowPeriod(b)
    /\ SameAmount(a.gross_pay, b.gross_pay)

\* going from the rows old to the rows new, no record outside period P was
\* deleted, inserted or changed
OnlyPeriodTouched(old, new, P) ==
    /\ \A k \in 1..Len(old) :
          RowPeriod(old[k]) # P => \E n \in 1..Len(new) : SameRecord(old[k], new[n])
    /\ \A n \in 1..Len(new) :
          RowPeriod(new[n]) # P => \E k \in 1..Len(old) : SameRecord(new[n], old[k])

\* the rows of the fiscal years other than fy
OtherYears(rows, fy) == SelectSeq(rows, LAMBDA c : c.fiscal_year # fy)

\* C27 (as claimed): when a run has ended, successfully or not, the records of
\* every period other than the one the run was for are those from before the
\* run: consolidate_data touches one fiscal year, and a run of consolidate() or
\* of the pandas program leaves the records of all periods but one as they were.
C27_OtherPeriodsUntouched ==
    (pc \in {"done", "failed", "crashed"}) =>
        IF lastRun.prog = "v1"
        THEN OtherYears(consolidation, lastRun.arg) = OtherYears(before, lastRun.arg)
        ELSE \E P \in {PeriodOf(JanEnd), PeriodOf(FebEnd)} :
                OnlyPeriodTouched(before, consolidated, P)

-----------------------------------------------------------------------------
(* The directory pipeline of v1: import_pmr_data, consolidate_data,            *)
(* fill_missing_emails                                                         *)

\* PMR sheet rows as read by pandas: a second row for P1 typed with a leading
\* blank, a row without an email, and a row whose id is only zeros
PmrSheetRows ==
    { [project_id |-> <<"P", "1">>,      manager_name |-> <<"J">>,      manager_email |-> <<"a">>],
      [project_id |-> <<"P", "2">>,      manager_name |-> <<" ", "j">>, manager_email |-> NaN],
      [project_id |-> <<" ", "P", "1">>, manager_name |-> <<"K">>,      manager_email |-> <<"x">>],
      [project_id |-> <<"0">>,           manager_name |-> <<"K">>,      manager_email |-> <<"x">>] }

\* the concatenated rows of one call of import_pmr_data
PmrFiles ==
    {<<r>> : r \in PmrSheetRows} \cup {<<r1, r2>> : r1 \in PmrSheetRows, r2 \in PmrSheetRows}

\* E1 on the first n of three projects in January, one hour each
DirRegionalChoices ==
    { c \in JoinRegionalChoices :
        /\ \A k \in DOMAIN c : c[k] \in {ABSENT, <<1>>}
        /\ c[2] # ABSENT => c[1] # ABSENT
        /\ c[3] # ABSENT => c[2] # ABSENT
        /\ c[4] = ABSENT /\ c[5] = ABSENT }

\* E1 is paid in January and in February
DirSalaryChoice == <<<<100>>, <<100>>, ABSENT>>

\* the profile table as other loaders may have left it (import_abd_data itself
\* binds no PROGRAM_MANAGER_NAME)
ProfileOf(emplid, name) ==
    [emplid |-> emplid, function |-> NULLTEXT, designation |-> NULLTEXT,
     band |-> NULLTEXT, program_manager_name |-> name]

ProfileChoices ==
    { <<>>,
      << ProfileOf("E1", NULLTEXT) >>,
      << ProfileOf("E1", <<"j", " ">>) >>,
      << ProfileOf("E1", <<"J">>), ProfileOf("E1", <<"K">>) >> }

InitDir ==
    /\ \E c \in DirRegionalChoices : regional = RegionalOf(c)
    /\ salary = SalaryOf(DirSalaryChoice)
    /\ abd = NoAbd
    /\ cells = <<>>
    /\ pmr = <<>>
    /\ imported = <<>>
    /\ profile \in ProfileChoices
    /\ InitStores

NextDir ==
    \/ \E rows \in PmrFiles : ImportPmrData(rows)
    \/ \E fy \in FiscalYears : ConsolidateData(fy)
    \/ \E fy \in FiscalYears : FillMissingEmails(fy)

SpecDir == InitDir /\ [][NextDir]_vars

\* a step of fill_missing_emails leaves the number of rows, every column but
\* PGM_MANAGER_EMAIL, and every row that had an email as they were
BackfillFrame ==
    /\ Len(consolidation') = Len(consolidation)
    /\ \A k \in 1..Len(consolidation) :
          /\ [consolidation'[k] EXCEPT !.pgm_manager_email = consolidation[k].pgm_manager_email]
                = consolidation[k]
          /\ consolidation[k].pgm_manager_email # NULLTEXT =>
                consolidation'[k] = consolidation[k]

\* C11: every run of the backfill pass leaves unchanged every consolidated row
\* whose manager email was already non-null, and changes no column other than
\* the manager email of any row.
C11_BackfillNonDestructive ==
    [][(\E fy \in FiscalYears : FillMissingEmails(fy)) => BackfillFrame]_vars

\* The pass ran for the data year over a row that kept its directory email and
\* over a row, of a project without a directory entry, that it gave an email.
C11_Witness ==
    /\ DataYear \in filled
    /\ \E k \in 1..Len(consolidation) :
          /\ consolidation[k].fiscal_year = DataYear
          /\ PmrOf(consolidation[k].project_id) # <<>>
          /\ consolidation[k].pgm_manager_email = <<"a">>
    /\ \E k \in 1..Len(consolidation) :
          /\ consolidation[k].fiscal_year = DataYear
          /\ PmrOf(consolidation[k].project_id) = <<>>
          /\ consolidation[k].pgm_manager_email # NULLTEXT

\* a directory entry that has an email: its cell was not empty
HasEmail(e) == e.pgm_manager_email \notin {NULLTEXT, str(NaN), <<>>}

\* the emails of the directory entries that have one and whose manager name
\* equals the given name, case and surrounding blanks ignored
DirectoryEmailsFor(name) ==
    {pmr[i].pgm_manager_email : i \in
        {j \in 1..Len(pmr) :
            /\ HasEmail(pmr[j])
            /\ LOWER(strip(pmr[j].pgm_manager_name)) = LOWER(strip(name))}}

\* a consolidated row without a manager email: NULL, or what the row took from a
\* directory entry whose email cell was empty
LacksEmail(c) == c.pgm_manager_email \in {NULLTEXT, str(NaN)}

\* C12 (as claimed): after the backfill pass every row of the year that had no
\* manager email and whose manager name matches, case and surrounding blanks
\* ignored, a directory entry that has an email carries the email of one such
\* entry, rows of a project whose own entry has a name but no email included.
C12_BackfillByName ==
    [][\A fy \in FiscalYears :
         FillMissingEmails(fy) =>
            \A k \in 1..Len(consolidation) :
               ( /\ consolidation[k].fiscal_year = fy
                 /\ LacksEmail(consolidation[k])
                 /\ consolidation[k].pgm_manager_name # NULLTEXT
                 /\ DirectoryEmailsFor(consolidation[k].pgm_manager_name) # {} )
               => consolidation'[k].pgm_manager_email
                     \in DirectoryEmailsFor(consolidation[k].pgm_manager_name)]_vars

\* the imported sheet rows that carry the project id, in import order
RowsCarrying(project_id) ==
    SelectIdx(imported, LAMBDA r : final_project_id(r.project_id) = project_id)

\* C13: after any sequence of directory imports each project id has exactly one
\* directory entry, holding the manager name and email bound from the first
\* imported row that carried that id; no later row overwrote or removed it.
C13_DirectoryAppendOnly ==
    /\ \A i, j \in 1..Len(pmr) : i # j => pmr[i].project_id # pmr[j].project_id
    /\ \A i \in 1..Len(pmr) :
          /\ RowsCarrying(pmr[i].project_id) # <<>>
          /\ LET first == imported[RowsCarrying(pmr[i].project_id)[1]]
             IN /\ pmr[i].pgm_manager_name = strip(str(first.manager_name))
                /\ pmr[i].pgm_manager_email = strip(str(first.manager_email))
    /\ \A n \in 1..Len(imported) :
          final_project_id(imported[n].project_id) # <<>> =>
             \E i \in 1..Len(pmr) : pmr[i].project_id = final_project_id(imported[n].project_id)

\* Two imported rows with different managers, typed differently, carried the id
\* of a stored entry.
C13_Witness ==
    \E i \in 1..Len(pmr) :
        LET rs == RowsCarrying(pmr[i].project_id)
        IN /\ Len(rs) >= 2
           /\ imported[rs[1]].manager_name # imported[rs[2]].manager_name
           /\ imported[rs[1]].project_id # imported[rs[2]].project_id

\* the project ids of the Assignments of a fiscal year (the regional source is
\* imported under the data year)
AssignmentProjectIds(fy) ==
    IF fy = DataYear
    THEN {regional[i].project_id : i \in 1..Len(regional)} \ {NULLID}
    ELSE {}

\* l lists, sorted and without duplicates, exactly the project ids of the year's
\* Assignments that have no directory entry
IsDiscrepancyList(l, fy) ==
    /\ {l[i] : i \in 1..Len(l)} =
          {p \in AssignmentProjectIds(fy) : ~DirectoryHasId(p)}
    /\ \A i, j \in 1..Len(l) : i < j => TextLess(IdChars(l[i]), IdChars(l[j]))

-----------------------------------------------------------------------------
(* Project ids as typed: how each path stores and looks up a 'PROJECT ID' cell *)

MaxIdLen == 3       \* most characters of a project id cell

IdAlphabet == {" ", "0", "1", "P"}

RECURSIVE TextsUpTo(_)
TextsUpTo(n) ==
    IF n = 0 THEN {<<>>}
    ELSE LET shorter == TextsUpTo(n - 1)
         IN shorter \cup {Append(t, ch) : t \in shorter, ch \in IdAlphabet}

RawIds == TextsUpTo(MaxIdLen)

\* v1: preprocess_regional_file cleans the cell into the month sheet, and
\* import_regional_details stores str(cell).strip() of the sheet; a cell cleaned
\* to the empty text is read back as missing and its row is dropped by the groupby
V1StoredIds(cs) ==
    FlatMap([i \in 1..Len(cs) |->
                IF clean_project_id(cs[i]) = <<>> THEN <<>>
                ELSE << [cell |-> cs[i],
                         project_id |-> strip(str(clean_project_id(cs[i])))] >>],
            [i \in 1..Len(cs) |-> i])

LoadRegionalV1 ==
    /\ regionalIds = <<>>
    /\ regionalIds' = V1StoredIds(cells)
    /\ UNCHANGED <<regional, salary, abd, cells, ukRegionalIds, pmr, imported, profile,
                   consolidation, consolidated, hasPk, producer, ranFy, lastRun, prevRun,
                   runs, pc, txn, before, outcome, log, filled>>

\* v3: reg_sal_db.py writes the Regional.xlsx frame to uk.regional as read
LoadRegionalUk ==
    /\ ukRegionalIds = <<>>
    /\ ukRegionalIds' = [i \in 1..Len(cells) |-> [cell |-> cells[i], project_id |-> cells[i]]]
    /\ UNCHANGED <<regional, salary, abd, cells, regionalIds, pmr, imported, profile,
                   consolidation, consolidated, hasPk, producer, ranFy, lastRun, prevRun,
                   runs, pc, txn, before, outcome, log, filled>>

\* gpt.py: load_pmr's pmr_map and consolidate's `project_id in pmr_map`
GptPmrLookup(project_id) == SelectIdx(pmr, LAMBDA e : e.project_id = project_id)

\* PMR rows for ids typed in several ways
IdPmrFiles ==
    { << [project_id |-> id, manager_name |-> <<"J">>, manager_email |-> <<"a">>] >> :
        id \in {<<"1">>, <<"0", "1">>, <<" ", "1">>, <<"P", "1">>, <<"0">>} }

InitIds ==
    /\ regional = <<>>
    /\ salary = <<>>
    /\ abd = NoAbd
    /\ cells \in {<<c>> : c \in RawIds}
    /\ pmr = <<>>
    /\ imported = <<>>
    /\ profile = <<>>
    /\ InitStores

NextIds ==
    \/ \E rows \in IdPmrFiles : ImportPmrData(rows)
    \/ LoadRegionalV1
    \/ LoadRegionalUk

SpecIds == InitIds /\ [][NextIds]_vars

DirectoryHas(id) == \E i \in 1..Len(pmr) : pmr[i].project_id = id

\* a project id in normalized form
Normalized(id) == clean_project_id(id) = id

\* C14 (as claimed): every project id stored in the directory, and every
\* assignment project id a path writes or looks the directory up with, is in
\* normalized form, so that the lookup finds the entry stored for the
\* normalized id of the cell, in the v1 join and in gpt's pmr_map lookup.
C14_NormalizedKeysEverywhere ==
    /\ \A i \in 1..Len(pmr) : Normalized(pmr[i].project_id)
    /\ \A i \in 1..Len(regionalIds) :
          /\ Normalized(regionalIds[i].project_id)
          /\ PmrOfText(regionalIds[i].project_id) # <<>>
                <=> DirectoryHas(clean_project_id(regionalIds[i].cell))
    /\ \A i \in 1..Len(ukRegionalIds) :
          /\ Normalized(ukRegionalIds[i].project_id)
          /\ GptPmrLookup(ukRegionalIds[i].project_id) # <<>>
                <=> DirectoryHas(clean_project_id(ukRegionalIds[i].cell))

Blanks(n) == [i \in 1..n |-> " "]
Zeros(n) == [i \in 1..n |-> "0"]

\* t is raw without its surrounding blanks
IsTrimOf(t, raw) ==
    /\ t = <<>> \/ (t[1] # " " /\ t[Len(t)] # " ")
    /\ \E a, b \in 0..Len(raw) : raw = Blanks(a) \o t \o Blanks(b)

\* out is t without its leading zeros
IsWithoutLeadingZeros(out, t) ==
    /\ out = <<>> \/ out[1] # "0"
    /\ \E n \in 0..Len(t) : t = Zeros(n) \o out

\* out is the normalized id of raw: the trimmed text, its leading zeros removed
\* exactly when it consists of digits only
IsNormalFormOf(out, raw) ==
    \E t \in {SubSeq(raw, a, b) : a \in 1..(Len(raw) + 1), b \in 0..Len(raw)} :
        /\ IsTrimOf(t, raw)
        /\ IF t # <<>> /\ \A i \in 1..Len(t) : t[i] \in Digits
           THEN IsWithoutLeadingZeros(out, t)
           ELSE out = t

\* C15: the id the assignment preprocessing stores for a cell, and the id the
\* directory import stores for a cell, is the trimmed cell with its leading zeros
\* removed if and only if the trimmed cell is all digits, the trimmed cell itself
\* otherwise; both compute the same id for the same cell.
C15_ProjectIdNormalization ==
    /\ \A i \in 1..Len(cells) :
          /\ IsNormalFormOf(clean_project_id(cells[i]), cells[i])
          /\ final_project_id(cells[i]) = clean_project_id(cells[i])
    /\ \A i \in 1..Len(regionalIds) :
          IsNormalFormOf(regionalIds[i].project_id, regionalIds[i].cell)
    /\ \A n \in 1..Len(imported) :
          /\ IsNormalFormOf(final_project_id(imported[n].project_id), imported[n].project_id)
          /\ clean_project_id(imported[n].project_id) = final_project_id(imported[n].project_id)
          /\ final_project_id(imported[n].project_id) # <<>> =>
                DirectoryHas(final_project_id(imported[n].project_id))

\* Both paths have stored the id of a padded all-digit cell with leading zeros,
\* and the directory holds an entry imported from a zero-padded id.
C15_Witness ==
    /\ \E i \in 1..Len(regionalIds) :
          /\ regionalIds[i].cell = <<" ", "0", "1">>
          /\ regionalIds[i].project_id = <<"1">>
    /\ \E n \in 1..Len(imported) : imported[n].project_id = <<"0", "1">>
    /\ DirectoryHas(<<"1">>)

-----------------------------------------------------------------------------
(* Negative amounts and hours in the sources *)

\* hours of the two January assignments of E1, negative included
NegHours == {<<-1>>, <<1>>, <<2>>}

NegRegionalChoices ==
    { c \in [1..Len(RegionalKeys) -> {ABSENT} \cup NegHours] :
        /\ c[3] = ABSENT /\ c[4] = ABSENT
        /\ c[5] \in {ABSENT, <<1>>} }

NegSalaryChoices == [1..Len(SalaryKeys) -> {ABSENT, <<-100>>, <<100>>}]

InitNeg ==
    /\ \E c \in NegRegionalChoices : regional = RegionalOf(c)
    /\ \E c \in NegSalaryChoices : salary = SalaryOf(c)
    /\ abd = NoAbd
    /\ NoDirectory
    /\ InitStores

NextNeg ==
    \/ \E fy \in FiscalYears : ConsolidateData(fy)
    \/ \E allocation \in Modes : GptConsolidate(allocation)

SpecNeg == InitNeg /\ [][NextNeg]_vars

\* the group's PayrollRecord has a negative amount or one of its Assignments
\* has negative hours
NegativeGroup(g) ==
    \/ \E i \in PayrollOf(g) :
          salary[i].gross_pay # NULL /\ salary[i].gross_pay[1] < 0
    \/ ~NoNegativeHours(g)

\* the groups a run has recorded a warning for: consolidate_data prints its
\* progress lines and the missing project ids, allocate_salary prints nothing,
\* and neither names a group
WarnedGroups == {}

\* C19 (as claimed): a group whose PayrollRecord has a negative gross amount or
\* whose Assignments include negative hours gets no ConsolidatedRecord and a
\* warning is recorded for it.
C19_NegativeInputsRejected ==
    \A g \in Groups :
        NegativeGroup(g) =>
            /\ V1Done => V1RecordsOf(g) = {}
            /\ GptDone => UkRecordsOf(g) = {}
            /\ (V1Done \/ GptDone) => g \in WarnedGroups

-----------------------------------------------------------------------------
(* The latest-snapshot profile of consolidate_data *)

\* sheet rows of the ABD files: two employees, bands that differ, an empty band cell
AbdSheetRows ==
    { [emplid |-> "E1", function |-> <<"x">>, designation |-> <<"J">>, band |-> <<"1">>],
      [emplid |-> "E1", function |-> <<"a">>, designation |-> <<"K">>, band |-> <<"2">>],
      [emplid |-> "E1", function |-> <<"x">>, designation |-> <<"J">>, band |-> NULLTEXT],
      [emplid |-> "E2", function |-> <<"x">>, designation |-> <<"J">>, band |-> <<"1">>] }

\* the data rows of one sheet: none or one
AbdSheets == {<<>>} \cup {<<r>> : r \in AbdSheetRows}

\* a file of the ABD folder: absent, without an EMPLID column, or readable
AbdFiles ==
    {[present |-> FALSE, has_emplid |-> FALSE, rows |-> <<>>]}
        \cup [present : {TRUE}, has_emplid : BOOLEAN, rows : AbdSheets]

AbdFolders == [1..Len(AbdFileNames) -> AbdFiles]

\* E1 on two projects in January and paid in January and February, E2 on one
\* project in February
AbdRegionalChoice == <<<<1>>, <<2>>, ABSENT, ABSENT, <<1>>>>
AbdSalaryChoice == <<<<100>>, <<100>>, <<100>>>>

InitAbd ==
    /\ regional = RegionalOf(AbdRegionalChoice)
    /\ salary = SalaryOf(AbdSalaryChoice)
    /\ abd = NoAbd
    /\ NoDirectory
    /\ InitStores

NextAbd ==
    \/ \E folder \in AbdFolders : ImportAbdData(folder)
    \/ \E fy \in FiscalYears : ConsolidateData(fy)

SpecAbd == InitAbd /\ [][NextAbd]_vars

\* the profile rows of an employee, by id
ProfileRowsOf(emplid) == {i \in 1..Len(profile) : profile[i].emplid = emplid}

\* row c carries the role, band and function of the last written profile row of
\* its employee, or NULLs when the employee has none
CarriesLatestProfile(c) ==
    LET ms == ProfileRowsOf(c.emplid)
    IN IF ms = {}
       THEN c.designation = NULLTEXT /\ c.band = NULLTEXT /\ c.function = NULLTEXT
       ELSE LET last == CHOOSE i \in ms : \A j \in ms : j <= i
            IN /\ c.designation = profile[last].designation
               /\ c.band = profile[last].band
               /\ c.function = profile[last].function

\* the rows of the fiscal year in the consolidation table
YearRows(rows, fy) == {k \in 1..Len(rows) : rows[k].fiscal_year = fy}

\* C21: every row a consolidation writes takes its role, band and function from
\* exactly one profile row of its employee, the one written last among the
\* imported batches; several profile rows do not multiply the rows of the
\* employee, and an employee without a profile row gets NULL profile fields.
C21_LatestSnapshotProfile ==
    [][\A fy \in FiscalYears :
         ConsolidateData(fy) =>
            /\ \A k \in YearRows(consolidation', fy) :
                  CarriesLatestProfile(consolidation'[k])
            /\ Cardinality(YearRows(consolidation', fy)) =
                  Len(QueryAllocated(V1Regional, V1Salary, fy))
                     + Len(QueryUnallocated(V1Regional, V1Salary, fy))]_vars

\* The data year was consolidated with two profile rows of E1, from two files
\* and with different bands, and none of E2: E1's three rows carry the later
\* band and E2's row carries none.
C21_Witness ==
    /\ lastRun = [prog |-> "v1", arg |-> DataYear]
    /\ Cardinality(ProfileRowsOf("E1")) = 2
    /\ ProfileRowsOf("E2") = {}
    /\ profile[1].band = <<"1">> /\ profile[2].band = <<"2">>
    /\ Cardinality({k \in YearRows(consolidation, DataYear) :
                       consolidation[k].emplid = "E1"
                       /\ consolidation[k].band = <<"2">>}) = 3
    /\ \E k \in YearRows(consolidation, DataYear) :
          consolidation[k].emplid = "E2" /\ consolidation[k].band = NULLTEXT

-----------------------------------------------------------------------------
(* The period-partitioned profile of consolidate() and get_abd_data *)

\* a table that exists but whose SELECT raises (an error other than "no such
\* table")
AbdUnreadable == [exists |-> TRUE, readable |-> FALSE, rows |-> <<>>]

PartRow(emplid, project_id, band) ==
    [emplid |-> emplid, project_id |-> project_id, band |-> band]

\* the January table: missing, unreadable, empty, with E1's profile on one or
\* both projects, or with a row of E2, who has no January assignment
JanTables ==
    { NoAbd[<<1, 2024>>], AbdUnreadable, AbdTable(<<>>),
      AbdTable(<<PartRow("E1", "P1", "B1")>>),
      AbdTable(<<PartRow("E2", "P1", "B3")>>),
      AbdTable(<<PartRow("E1", "P1", "B1"), PartRow("E1", "P2", "B2")>>) }

\* the February table: missing, unreadable, with E2's profile on P1, or with a
\* row of E1 on P1, whose assignment to P1 is in January
FebTables ==
    { NoAbd[<<2, 2024>>], AbdUnreadable,
      AbdTable(<<PartRow("E2", "P1", "B1")>>),
      AbdTable(<<PartRow("E1", "P1", "B2")>>) }

PartChoices ==
    { [t \in DOMAIN NoAbd |-> IF t = <<1, 2024>> THEN j ELSE f] :
        j \in JanTables, f \in FebTables }

InitPart ==
    /\ regional = RegionalOf(AbdRegionalChoice)
    /\ salary = SalaryOf(AbdSalaryChoice)
    /\ abd \in PartChoices
    /\ NoDirectory
    /\ InitStores

NextPart ==
    \/ \E allocation \in Modes : GptConsolidate(allocation)
    \/ V4Main

SpecPart == InitPart /\ [][NextPart]_vars

\* the period of a row of uk.consolidated, as written by the last producer
UkPeriodOf(c) ==
    IF producer.prog = "v4" THEN PeriodOfDate(c.month) ELSE PeriodOfKey(c.month)

\* the MM_YYYY table of a period
TableOf(period) == <<period[2], period[1]>>

\* row c is the ConsolidatedRecord of Assignment i
RecordOf(c, i) ==
    /\ c.emplid = regional[i].emplid
    /\ c.project_id = regional[i].project_id
    /\ c.month # NULL
    /\ UkPeriodOf(c) = PeriodOf(regional[i].dt)

\* C22 (as claimed): after a run of consolidate() or of the pandas program the
\* run has not failed, every Assignment has its ConsolidatedRecord, a record
\* carries a band only if the table of its period holds a row for exactly its
\* (employee, project), and the records of a period whose table is missing or
\* cannot be read carry NULL.
C22_PeriodPartitionedProfile ==
    lastRun.prog \in {"gpt", "v4"} =>
        /\ producer = lastRun
        /\ \A i \in 1..Len(regional) :
              \E k \in 1..Len(consolidated) : RecordOf(consolidated[k], i)
        /\ \A k \in 1..Len(consolidated) :
              LET c == consolidated[k]
                  t == TableOf(UkPeriodOf(c))
              IN /\ c.band # NULLBAND =>
                       /\ AbdReadable(t)
                       /\ \E n \in 1..Len(abd[t].rows) :
                             abd[t].rows[n] = PartRow(c.emplid, c.project_id, c.band)
                 /\ ~AbdReadable(t) => c.band = NULLBAND

\* the rows of uk.consolidated that are the record of Assignment i
V4RecordsOf(i) == {k \in 1..Len(consolidated) : RecordOf(consolidated[k], i)}

\* C29 (as claimed): the table written by the pandas program has as many rows
\* as uk.regional, and every Assignment has exactly one row in it, whether or
\* not its profile table, payroll row or directory entry exists and also when
\* its profile table cannot be read.
C29_OneRowPerAssignment ==
    producer.prog = "v4" =>
        /\ Len(consolidated) = Len(regional)
        /\ \A i \in 1..Len(regional) : Cardinality(V4RecordsOf(i)) = 1

-----------------------------------------------------------------------------
(* Dates that cannot be parsed, and several payroll rows of one period *)

\* E1's assignments to P1 and P2 and E1's payroll rows, each with a January
\* date, a missing date or an unparsable one
KeyDates == {JanEnd, NULL, BadDate}
KeyMonths == {JanStart, NULL, BadDate}

KeyRegionalChoices ==
    { <<[emplid |-> "E1", dt |-> d, project_id |-> "P1", total_hours |-> <<1>>]>> :
          d \in KeyDates }
      \cup
    { <<[emplid |-> "E1", dt |-> d1, project_id |-> "P1", total_hours |-> <<1>>],
        [emplid |-> "E1", dt |-> d2, project_id |-> "P2", total_hours |-> <<1>>]>> :
          d1 \in KeyDates, d2 \in KeyDates }

\* one or two payroll rows of E1, the second with another amount or none
KeySalaryChoices ==
    { <<[emplid |-> "E1", month |-> m, gross_pay |-> <<100, 1>>]>> : m \in KeyMonths }
      \cup
    { <<[emplid |-> "E1", month |-> m1, gross_pay |-> <<100, 1>>],
        [emplid |-> "E1", month |-> m2, gross_pay |-> g]>> :
          m1 \in KeyMonths, m2 \in KeyMonths, g \in {<<102, 1>>, NULL} }

InitKeys ==
    /\ regional \in KeyRegionalChoices
    /\ salary \in KeySalaryChoices
    /\ abd = NoAbd
    /\ NoDirectory
    /\ InitStores

NextKeys == \E allocation \in Modes : GptConsolidate(allocation)

SpecKeys == InitKeys /\ [][NextKeys]_vars

\* the Assignments whose date gives a period
Parsable == {i \in 1..Len(regional) : month_key_from_dt(regional[i].dt) # NULL}

\* C23 (as claimed): a source record whose period cannot be parsed produces no
\* ConsolidatedRecord and is matched with no other record, two records with
\* unparsable periods included, while the rest of the batch is processed.
C23_UnparsableKeysDropped ==
    GptDone =>
        /\ \A k \in 1..Len(consolidated) : consolidated[k].month # NULL
        /\ Len(consolidated) = Cardinality(Parsable)
        /\ \A i \in Parsable :
              \E k \in 1..Len(consolidated) :
                 /\ consolidated[k].emplid = regional[i].emplid
                 /\ consolidated[k].project_id = regional[i].project_id
                 /\ consolidated[k].month = month_key_from_dt(regional[i].dt)

-----------------------------------------------------------------------------
(* Period keys of assignment dates and payroll dates *)

\* dates of the same month, of different months and of the same month of
\* different years, 1968 and 2068 among them
PeriodDates ==
    { <<2024, 1, 1>>, <<2024, 1, 31>>, <<2024, 2, 29>>, <<2023, 2, 28>>,
      <<2023, 1, 31>>, <<1968, 1, 31>>, <<2068, 1, 31>> }

\* E1 assigned to P1 (and to P2) at any of the dates, one hour each
PeriodRegionalChoices ==
    { <<[emplid |-> "E1", dt |-> d, project_id |-> "P1", total_hours |-> <<1>>]>> :
          d \in PeriodDates }
      \cup
    { <<[emplid |-> "E1", dt |-> d1, project_id |-> "P1", total_hours |-> <<1>>],
        [emplid |-> "E1", dt |-> d2, project_id |-> "P2", total_hours |-> <<1>>]>> :
          d1 \in PeriodDates, d2 \in PeriodDates }

\* E1 paid at any of the dates
PeriodSalaryChoices ==
    { <<[emplid |-> "E1", month |-> m, gross_pay |-> <<100, 1>>]>> : m \in PeriodDates }

InitPeriod ==
    /\ regional \in PeriodRegionalChoices
    /\ salary \in PeriodSalaryChoices
    /\ abd = NoAbd
    /\ NoDirectory
    /\ InitStores

NextPeriod ==
    \/ \E fy \in FiscalYears : ConsolidateData(fy)
    \/ \E allocation \in Modes : GptConsolidate(allocation)

SpecPeriod == InitPeriod /\ [][NextPeriod]_vars

\* the period keys the two paths give an assignment row and a payroll row
V1RegionalKey(r) == ImportRegionalDetails(<<r>>, DataYear)[1].Month
V1SalaryKey(p) == ImportSalaryData(<<p>>, DataYear)[1].MONTH
GptRegionalKey(r) == month_key_from_dt(r.dt)
GptSalaryKey(p) == month_key_from_dt(p.month)

SameCalendarMonth(a, b) == a[1] = b[1] /\ a[2] = b[2]

\* C26 (as claimed): in a run the assignment rows and the payroll rows are
\* keyed alike: two dates get equal period keys exactly when they lie in the
\* same calendar month of the same year.
C26_PeriodKeyConsistency ==
    /\ V1Done =>
          /\ \A i \in 1..Len(regional), j \in 1..Len(salary) :
                (V1RegionalKey(regional[i]) = V1SalaryKey(salary[j]))
                   <=> SameCalendarMonth(regional[i].dt, salary[j].month)
          /\ \A i, j \in 1..Len(regional) :
                (V1RegionalKey(regional[i]) = V1RegionalKey(regional[j]))
                   <=> SameCalendarMonth(regional[i].dt, regional[j].dt)
    /\ GptDone =>
          /\ \A i \in 1..Len(regional), j \in 1..Len(salary) :
                (GptRegionalKey(regional[i]) = GptSalaryKey(salary[j]))
                   <=> SameCalendarMonth(regional[i].dt, salary[j].month)
          /\ \A i, j \in 1..Len(regional) :
                (GptRegionalKey(regional[i]) = GptRegionalKey(regional[j]))
                   <=> SameCalendarMonth(regional[i].dt, regional[j].dt)


\* the payroll rows of the employee and period key of Assignment i, in load order
PayrollRowsOf(i) ==
    {k \in 1..Len(salary) :
        /\ salary[k].emplid = regional[i].emplid
        /\ month_key_from_dt(salary[k].month) = month_key_from_dt(regional[i].dt)}

\* the last of them loaded
LastLoaded(i) == CHOOSE k \in PayrollRowsOf(i) : \A n \in PayrollRowsOf(i) : n <= k

\* the Assignments of the employee and period key of Assignment i
KeyGroupOf(i) ==
    {j \in 1..Len(regional) :
        /\ regional[j].emplid = regional[i].emplid
        /\ month_key_from_dt(regional[j].dt) = month_key_from_dt(regional[i].dt)}

\* C30: when uk.salary holds several rows of one (employee, period key),
\* allocate_salary distributes the gross_pay of the last one loaded, and
\* nothing when that one is NULL whatever the earlier rows hold; the table has
\* one row per Assignment however many payroll rows there are.
C30_DuplicatePayrollRows ==
    GptDone =>
        /\ Len(consolidated) = Len(regional)
        /\ \A i \in 1..Len(regional) :
              PayrollRowsOf(i) # {} =>
                 LET last == salary[LastLoaded(i)].gross_pay
                 IN IF last = NULL
                    THEN \A j \in KeyGroupOf(i) : consolidated[j].gross_pay = NULL
                    ELSE /\ \A j \in KeyGroupOf(i) : consolidated[j].gross_pay # NULL
                         /\ RatEq(RatSum(AmountsOf(consolidated, KeyGroupOf(i))), last)

\* consolidate() has run over two January Assignments of E1 and two January
\* payroll rows of E1 with different amounts.
C30_Witness ==
    /\ GptDone
    /\ \E i \in 1..Len(regional) :
          /\ month_key_from_dt(regional[i].dt) # NULL
          /\ Cardinality(KeyGroupOf(i)) = 2
          /\ Cardinality(PayrollRowsOf(i)) = 2
          /\ salary[LastLoaded(i)].gross_pay # NULL
          /\ \E k \in PayrollRowsOf(i) :
                ~RatEq(salary[k].gross_pay, salary[LastLoaded(i)].gross_pay)

=============================================================================
